---- MODULE Spec2Model ----
(***************************************************************************)
(* A model of the BoxFrame tabular engine: the DataFrame constructor, the  *)
(* sort engine (software comparators and the accelerated numeric paths),   *)
(* the query parser/evaluator, merge/concat, and the array aliasing        *)
(* between DataFrames.                                                       *)
(*                                                                         *)
(* JavaScript strings are sequences of one-character strings, so that the  *)
(* parser's substring/indexOf/trim steps and the key builder's join are    *)
(* computed character by character.  A DataValue is a record               *)
(* [t, n, f, s]: t is the JavaScript type tag, (n, f) the number n + f/10  *)
(* (f is 0 or 5; a boolean is n = 1 / n = 0), s the characters of a string. *)
(***************************************************************************)
EXTENDS Integers, Naturals, Sequences, FiniteSets, TLC

VARIABLES op, inp, res, wasmEnabled, heap, tables, objs, engine

vars == <<op, inp, res, wasmEnabled, heap, tables, objs, engine>>

----------------------------------------------------------------------------
(* Bounds of the model.                                                    *)

\* rows of a table handed to sortValues
SortMaxRows == 3

----------------------------------------------------------------------------
(* DataValue and the JavaScript operators the code applies to it.          *)

\* -2147483648, the least 32-bit integer (and the least integer TLC holds)
MinInt32 == (-2147483647) - 1

Num(k) == [t |-> "num", n |-> k, f |-> 0, s |-> <<>>]
NumF(k, d) == [t |-> "num", n |-> k, f |-> d, s |-> <<>>]
Str(cs) == [t |-> "str", n |-> 0, f |-> 0, s |-> cs]
Bool(b) == [t |-> "bool", n |-> IF b THEN 1 ELSE 0, f |-> 0, s |-> <<>>]
Null == [t |-> "null", n |-> 0, f |-> 0, s |-> <<>>]
Undef == [t |-> "undef", n |-> 0, f |-> 0, s |-> <<>>]
NaN == [t |-> "nan", n |-> 0, f |-> 0, s |-> <<>>]

\* v === null || v === undefined   (also written v == null in the source)
IsNullish(v) == v.t = "null" \/ v.t = "undef"

\* typeof v === "number"
IsNumber(v) == v.t = "num" \/ v.t = "nan"

\* a === b
StrictEq(a, b) == a.t # "nan" /\ a = b

\* The characters of the model's strings, in ascending code-unit order.
Ascii ==
    << " ", "!", "\"", "'", "(", ")", "-", ".", "0", "1", "2", "3", "4", "5",
       "6", "7", "8", "9", "<", "=", ">", "L", "N", "U", "_", "a", "b", "c",
       "d", "e", "f", "i", "j", "k", "l", "n", "o", "r", "s", "t", "u", "v",
       "w", "x", "y", "|" >>

CharCode(c) == CHOOSE i \in 1..Len(Ascii) : Ascii[i] = c

\* string < string: code-unit lexicographic order
RECURSIVE StrLt(_, _)
StrLt(x, y) ==
    IF y = <<>> THEN FALSE
    ELSE IF x = <<>> THEN TRUE
    ELSE IF Head(x) = Head(y) THEN StrLt(Tail(x), Tail(y))
    ELSE CharCode(Head(x)) < CharCode(Head(y))

Digits == <<"0", "1", "2", "3", "4", "5", "6", "7", "8", "9">>
IsDigit(c) == \E i \in 1..10 : Digits[i] = c
DigitVal(c) == (CHOOSE i \in 1..10 : Digits[i] = c) - 1

RECURSIVE NatToStr(_)
NatToStr(k) ==
    IF k < 10 THEN <<Digits[k + 1]>>
    ELSE NatToStr(k \div 10) \o <<Digits[(k % 10) + 1]>>

\* String(v) for a number n + f/10
NumToStr(v) ==
    LET neg == v.n < 0
        \* magnitude: integer part and fraction digit of |v|
        ip == IF neg THEN (IF v.f = 0 THEN -v.n ELSE -v.n - 1) ELSE v.n
        fp == IF neg /\ v.f # 0 THEN 10 - v.f ELSE v.f
    IN (IF neg THEN <<"-">> ELSE <<>>) \o NatToStr(ip)
         \o (IF fp = 0 THEN <<>> ELSE <<".", Digits[fp + 1]>>)

\* String(v)
ToStr(v) ==
    CASE v.t = "num" -> NumToStr(v)
      [] v.t = "nan" -> <<"N", "a", "N">>
      [] v.t = "str" -> v.s
      [] v.t = "bool" -> IF v.n = 1 THEN <<"t", "r", "u", "e">>
                         ELSE <<"f", "a", "l", "s", "e">>
      [] v.t = "null" -> <<"n", "u", "l", "l">>
      [] v.t = "undef" -> <<"u", "n", "d", "e", "f", "i", "n", "e", "d">>

\* s.trim()
RECURSIVE TrimLeft(_)
TrimLeft(s) == IF s # <<>> /\ Head(s) = " " THEN TrimLeft(Tail(s)) ELSE s

RECURSIVE TrimRight(_)
TrimRight(s) ==
    IF s # <<>> /\ s[Len(s)] = " " THEN TrimRight(SubSeq(s, 1, Len(s) - 1)) ELSE s

Trim(s) == TrimRight(TrimLeft(s))

RECURSIVE DigitsToNat(_, _)
DigitsToNat(s, acc) ==
    IF s = <<>> THEN acc ELSE DigitsToNat(Tail(s), acc * 10 + DigitVal(Head(s)))

AllDigits(s) == s # <<>> /\ \A i \in 1..Len(s) : IsDigit(s[i])

\* the position of the first "." of s (0 when there is none)
DotPosition(s) ==
    IF \E i \in 1..Len(s) : s[i] = "."
    THEN CHOOSE i \in 1..Len(s) : s[i] = "." /\ \A j \in 1..(i - 1) : s[j] # "."
    ELSE 0

\* the number (-1)^neg * (m + fd/10) in the model's representation
SignedValue(neg, m, fd) ==
    IF ~neg THEN NumF(m, fd)
    ELSE IF fd = 0 THEN Num(-m) ELSE NumF(-m - 1, 10 - fd)

\* the value of the digits ipart with the optional fraction fpart
DecimalValue(neg, ipart, fpart, hasDot) ==
    IF AllDigits(ipart) /\ (~hasDot \/ fpart = <<"0">> \/ fpart = <<"5">>)
    THEN SignedValue(neg, DigitsToNat(ipart, 0), IF fpart = <<"5">> THEN 5 ELSE 0)
    ELSE NaN

SplitDecimal(neg, body, dot) ==
    DecimalValue(neg,
                 IF dot = 0 THEN body ELSE SubSeq(body, 1, dot - 1),
                 IF dot = 0 THEN <<>> ELSE SubSeq(body, dot + 1, Len(body)),
                 dot # 0)

TrimmedToNumber(s) ==
    IF s = <<>> THEN Num(0)
    ELSE IF Head(s) = "-" THEN SplitDecimal(TRUE, Tail(s), DotPosition(Tail(s)))
    ELSE SplitDecimal(FALSE, s, DotPosition(s))

\* Number(s) for a string: whitespace is trimmed, "" is 0, an optionally
\* signed decimal (with an optional one-digit fraction .0/.5) is its value,
\* anything else is NaN.
StrToNumber(s0) == TrimmedToNumber(Trim(s0))

\* ToNumber(v)
ToNumber(v) ==
    CASE v.t = "num" -> v
      [] v.t = "nan" -> NaN
      [] v.t = "str" -> StrToNumber(v.s)
      [] v.t = "bool" -> Num(v.n)
      [] v.t = "null" -> Num(0)
      [] v.t = "undef" -> NaN

NumLt(x, y) ==
    x.t = "num" /\ y.t = "num" /\ (x.n < y.n \/ (x.n = y.n /\ x.f < y.f))

\* a < b
JsLt(a, b) ==
    IF a.t = "str" /\ b.t = "str" THEN StrLt(a.s, b.s)
    ELSE NumLt(ToNumber(a), ToNumber(b))

\* a > b
JsGt(a, b) == JsLt(b, a)

\* a >= b  (not (a < b), false when either side converts to NaN)
JsGe(a, b) ==
    IF a.t = "str" /\ b.t = "str" THEN ~StrLt(a.s, b.s)
    ELSE LET x == ToNumber(a)
             y == ToNumber(b)
         IN x.t = "num" /\ y.t = "num" /\ ~NumLt(x, y)

\* a <= b
JsLe(a, b) == JsGe(b, a)

----------------------------------------------------------------------------
(* Map<string, X>: insertion-ordered pairs <<key, value>> with unique keys. *)

MapHas(m, k) == \E i \in 1..Len(m) : m[i][1] = k

MapGet(m, k) == m[CHOOSE i \in 1..Len(m) : m[i][1] = k][2]

\* m.set(k, v): an existing key keeps its position
MapSet(m, k, v) ==
    IF MapHas(m, k)
    THEN [i \in 1..Len(m) |-> IF m[i][1] = k THEN <<k, v>> ELSE m[i]]
    ELSE Append(m, <<k, v>>)

MapKeys(m) == [i \in 1..Len(m) |-> m[i][1]]

\* new Map(pairs) / Object.entries of a record built by successive writes
RECURSIVE MapOf(_)
MapOf(pairs) ==
    IF pairs = <<>> THEN <<>>
    ELSE LET n == Len(pairs)
         IN MapSet(MapOf(SubSeq(pairs, 1, n - 1)), pairs[n][1], pairs[n][2])

\* a property name that is an array index: decimal digits without a
\* leading zero (every such name of the model is below 2^32 - 1)
IsArrayIndex(k) ==
    /\ k # <<>>
    /\ \A i \in 1..Len(k) : IsDigit(k[i])
    /\ Len(k) > 1 => k[1] # "0"

\* Object.entries(record) of a record written in the order of m: the
\* array-index names first, in ascending numeric order, then the other
\* names in the order they were written
ObjectEntries(m) ==
    LET ints == SelectSeq(m, LAMBDA e : IsArrayIndex(e[1]))
        below(e) == Cardinality({i \in 1..Len(ints) :
                        DigitsToNat(ints[i][1], 0) < DigitsToNat(e[1], 0)})
    IN [i \in 1..Len(ints) |->
           ints[CHOOSE j \in 1..Len(ints) : below(ints[j]) = i - 1]]
         \o SelectSeq(m, LAMBDA e : ~IsArrayIndex(e[1]))

\* arr.includes(x)
Includes(arr, x) == \E i \in 1..Len(arr) : arr[i] = x

\* Array.from({ length: n }, (_, i) => i)
Range(n) == [i \in 1..n |-> Num(i - 1)]

----------------------------------------------------------------------------
(* Series (src/series.ts is not part of the sources): a named column that  *)
(* keeps the values it was given and infers its dtype from the first       *)
(* non-missing value.                                                       *)

inferDType(v) ==
    CASE v.t = "num" -> IF v.f = 0 THEN "int32" ELSE "float64"
      [] v.t = "nan" -> "float64"
      [] v.t = "bool" -> "bool"
      [] OTHER -> "string"

SeriesDType(values) ==
    IF \E i \in 1..Len(values) : ~IsNullish(values[i])
    THEN inferDType(values[CHOOSE i \in 1..Len(values) :
                        /\ ~IsNullish(values[i])
                        /\ \A j \in 1..(i - 1) : IsNullish(values[j])])
    ELSE "string"

Series(columnData, columnName) ==
    [name |-> columnName, values |-> columnData, dtype |-> SeriesDType(columnData)]

----------------------------------------------------------------------------
(* DataFrame: the constructor and the value it builds.                     *)

\* an optional argument: absent (undefined) or given
Absent == [given |-> FALSE, v |-> <<>>]
Given(x) == [given |-> TRUE, v |-> x]

\* a thrown Error, in the shape of a DataFrame so that results are uniform
Error(kind, detail) ==
    [ok |-> FALSE, err |-> kind, detail |-> detail,
     columns |-> <<>>, index |-> <<>>, data |-> <<>>, shape |-> <<0, 0>>]

\* the first column whose length differs from the index length, in Map order
FirstBadColumn(dataMap, index) ==
    CHOOSE i \in 1..Len(dataMap) :
        /\ Len(dataMap[i][2]) # Len(index)
        /\ \A j \in 1..(i - 1) : Len(dataMap[j][2]) = Len(index)

\* new DataFrame(data, { columns, index })
DataFrame(dataMap, optColumns, optIndex) ==
    LET columns == IF optColumns.given THEN optColumns.v ELSE MapKeys(dataMap)
        index == IF optIndex.given THEN optIndex.v
                 ELSE IF dataMap # <<>> THEN Range(Len(dataMap[1][2])) ELSE <<>>
    IN IF \E i \in 1..Len(dataMap) : Len(dataMap[i][2]) # Len(index)
       THEN Error("LengthMismatch", dataMap[FirstBadColumn(dataMap, index)][1])
       ELSE [ok |-> TRUE, err |-> "", detail |-> <<>>,
             columns |-> columns,
             index |-> index,
             data |-> [i \in 1..Len(dataMap) |->
                          <<dataMap[i][1], Series(dataMap[i][2], dataMap[i][1])>>],
             shape |-> <<Len(index), Len(columns)>>]

\* the column arrays of a DataFrame, as the operations hand them on
ValuesMap(df) == [i \in 1..Len(df.data) |-> <<df.data[i][1], df.data[i][2].values>>]

\* df.length
Length(df) == df.shape[1]

\* _reorderByIndices(indices): positions are 1-based here
reorderByIndices(df, indices) ==
    LET newIndex == [i \in 1..Len(indices) |-> df.index[indices[i]]]
        newData == [c \in 1..Len(df.data) |->
                       <<df.data[c][1],
                         [i \in 1..Len(indices) |-> df.data[c][2].values[indices[i]]]>>]
    IN DataFrame(newData, Given(df.columns), Given(newIndex))

----------------------------------------------------------------------------
(* Array.prototype.sort(compare) on the positions 1..n.  The sort is       *)
(* stable; when compare is a consistent order the result is the one stable *)
(* sorted permutation.  Where compare contradicts itself on a pair (both   *)
(* orders claimed, or neither) the relative order of that pair is          *)
(* implementation-defined, so every permutation that respects the          *)
(* uncontradicted pairs is a possible outcome.                              *)

Before(c_ab, a, b) == c_ab < 0 \/ (c_ab = 0 /\ a < b)

\* compare places a before b and does not also place b before a
MustPrecede(cmp, a, b) ==
    Before(cmp[a, b], a, b) /\ ~Before(cmp[b, a], b, a)

\* the position compare gives a when it orders every pair
Rank(n, cmp, a) ==
    1 + Cardinality({b \in 1..n : b # a /\ MustPrecede(cmp, b, a)})

\* compare orders every pair one way and the positions are a permutation
ConsistentOrder(n, cmp) ==
    /\ \A a \in 1..n : \A b \in (a + 1)..n :
           MustPrecede(cmp, a, b) # MustPrecede(cmp, b, a)
    /\ {Rank(n, cmp, a) : a \in 1..n} = 1..n

SortOutcomes(n, cmp) ==
    IF ConsistentOrder(n, cmp)
    THEN {[i \in 1..n |-> CHOOSE a \in 1..n : Rank(n, cmp, a) = i]}
    ELSE LET good == {p \in Permutations(1..n) :
                        \A i \in 1..n : \A j \in (i + 1)..n :
                            ~MustPrecede(cmp, p[j], p[i])}
         IN IF good # {} THEN good ELSE Permutations(1..n)

Seqs(p) == [i \in 1..Cardinality(DOMAIN p) |-> p[i]]

----------------------------------------------------------------------------
(* The accelerated numeric backend (src/wasm_engine.ts and the engine it   *)
(* wraps are not part of the sources): a stable sort of a registered       *)
(* numeric buffer by the natural order of its element type, NaN after      *)
(* every number, the order reversed when ascending is false.               *)

BackendCmp(x, y, ascending) ==
    LET c == IF x.t = "nan" /\ y.t = "nan" THEN 0
             ELSE IF x.t = "nan" THEN 1
             ELSE IF y.t = "nan" THEN -1
             ELSE IF NumLt(x, y) THEN -1
             ELSE IF NumLt(y, x) THEN 1
             ELSE 0
    IN IF ascending THEN c ELSE -c

\* sortIndicesF64 / sortIndicesI32 (buffer, ascending, stable = true)
BackendSortIndices(buffer, ascending) ==
    LET cmp[a \in 1..Len(buffer), b \in 1..Len(buffer)] == BackendCmp(buffer[a], buffer[b], ascending)
    IN Seqs(CHOOSE p \in SortOutcomes(Len(buffer), cmp) : TRUE)

\* sortTwoColumnsIndicesF64 / I32 (buffer1, buffer2, asc1, asc2, stable = true)
BackendSortTwoColumns(buffer1, buffer2, asc1, asc2) ==
    LET cmp[a \in 1..Len(buffer1), b \in 1..Len(buffer1)] ==
            LET c1 == BackendCmp(buffer1[a], buffer1[b], asc1)
            IN IF c1 # 0 THEN c1 ELSE BackendCmp(buffer2[a], buffer2[b], asc2)
    IN Seqs(CHOOSE p \in SortOutcomes(Len(buffer1), cmp) : TRUE)

----------------------------------------------------------------------------
(* sortValues                                                               *)

\* the element conversion of new Int32Array(values): ToInt32 drops the
\* fraction (toward zero); every number of the model lies in the 32-bit range,
\* so the modulo 2^32 wrap is the identity
ToInt32(v) == Num(IF v.f # 0 /\ v.n < 0 THEN v.n + 1 ELSE v.n)

\* v === null ? NaN : v
EncodeF64(v) == IF v.t = "null" THEN NaN ELSE v

\* v === null ? -2147483648 : v, stored into an Int32Array
EncodeI32(v) == IF v.t = "null" THEN Num(MinInt32) ELSE ToInt32(v)

\* series.values.every((v) => typeof v === "number" || v === null)
AllNumberOrNull(values) ==
    \A i \in 1..Len(values) : IsNumber(values[i]) \/ values[i].t = "null"

\* the comparator of the single-column path
compare1(valA, valB, ascending) ==
    IF StrictEq(valA, valB) THEN 0
    ELSE IF IsNullish(valA) THEN (IF ascending THEN 1 ELSE -1)
    ELSE IF IsNullish(valB) THEN (IF ascending THEN -1 ELSE 1)
    ELSE LET comparison == IF JsLt(valA, valB) THEN -1
                           ELSE IF JsGt(valA, valB) THEN 1 ELSE 0
         IN IF ascending THEN comparison ELSE -comparison

\* the comparator of the two-column path
compare2(valA1, valB1, valA2, valB2, ascending) ==
    LET second == compare1(valA2, valB2, ascending)
    IN IF ~StrictEq(valA1, valB1)
       THEN IF IsNullish(valA1) THEN (IF ascending THEN 1 ELSE -1)
            ELSE IF IsNullish(valB1) THEN (IF ascending THEN -1 ELSE 1)
            ELSE LET comparison1 == IF JsLt(valA1, valB1) THEN -1
                                    ELSE IF JsGt(valA1, valB1) THEN 1 ELSE 0
                     result1 == IF ascending THEN comparison1 ELSE -comparison1
                 IN IF result1 # 0 THEN result1 ELSE second
       ELSE second

\* the comparator of the N-column path, over the key tuples of two rows
RECURSIVE compareN(_, _, _)
compareN(keyA, keyB, ascending) ==
    IF keyA = <<>> THEN 0
    ELSE LET valA == Head(keyA)
             valB == Head(keyB)
         IN IF StrictEq(valA, valB) THEN compareN(Tail(keyA), Tail(keyB), ascending)
            ELSE IF IsNullish(valA) THEN (IF ascending THEN 1 ELSE -1)
            ELSE IF IsNullish(valB) THEN (IF ascending THEN -1 ELSE 1)
            ELSE LET comparison == IF JsLt(valA, valB) THEN -1
                                   ELSE IF JsGt(valA, valB) THEN 1 ELSE 0
                     result == IF ascending THEN comparison ELSE -comparison
                 IN IF result # 0 THEN result
                    ELSE compareN(Tail(keyA), Tail(keyB), ascending)

\* one outcome of a sortValues call: the path taken, the permutation
\* (1-based source positions in result order) and the DataFrame returned
SortResult(path, indices, out) == [path |-> path, indices |-> indices, out |-> out]

SortThrow(colName) == SortResult("throw", <<>>, Error("ColumnNotFound", colName))

\* sortValues with one key column
sortValues1(df, colName, ascending, wasm) ==
    IF ~MapHas(df.data, colName) THEN {SortThrow(colName)}
    ELSE LET series == MapGet(df.data, colName)
             values == series.values
         IN IF series.dtype = "float64" /\ AllNumberOrNull(values) /\ wasm
            THEN LET buffer == [i \in 1..Len(values) |-> EncodeF64(values[i])]
                     indices == BackendSortIndices(buffer, ascending)
                 IN {SortResult("wasm_f64", indices, reorderByIndices(df, indices))}
            ELSE IF series.dtype = "int32" /\ AllNumberOrNull(values) /\ wasm
            THEN LET buffer == [i \in 1..Len(values) |-> EncodeI32(values[i])]
                     indices == BackendSortIndices(buffer, ascending)
                 IN {SortResult("wasm_i32", indices, reorderByIndices(df, indices))}
            ELSE LET cmp[a \in 1..Length(df), b \in 1..Length(df)] == compare1(values[a], values[b], ascending)
                 IN {SortResult("js_1", Seqs(p), reorderByIndices(df, Seqs(p))) :
                        p \in SortOutcomes(Length(df), cmp)}

\* the N-column path (also reached with two names when one is not a column)
sortValuesN(df, sortColumns, ascending) ==
    IF \E i \in 1..Len(sortColumns) : ~MapHas(df.data, sortColumns[i])
    THEN {SortThrow(sortColumns[CHOOSE i \in 1..Len(sortColumns) :
              /\ ~MapHas(df.data, sortColumns[i])
              /\ \A j \in 1..(i - 1) : MapHas(df.data, sortColumns[j])])}
    ELSE LET key(r) == [c \in 1..Len(sortColumns) |->
                           MapGet(df.data, sortColumns[c]).values[r]]
             cmp[a \in 1..Len(df.index), b \in 1..Len(df.index)] == compareN(key(a), key(b), ascending)
         IN {SortResult("js_n", Seqs(p), reorderByIndices(df, Seqs(p))) :
                p \in SortOutcomes(Len(df.index), cmp)}

\* sortValues with two key columns
sortValues2(df, sortColumns, ascending, wasm) ==
    IF ~(MapHas(df.data, sortColumns[1]) /\ MapHas(df.data, sortColumns[2]))
    THEN sortValuesN(df, sortColumns, ascending)
    ELSE LET series1 == MapGet(df.data, sortColumns[1])
             series2 == MapGet(df.data, sortColumns[2])
             values1 == series1.values
             values2 == series2.values
             numeric == AllNumberOrNull(values1) /\ AllNumberOrNull(values2)
         IN IF series1.dtype = "float64" /\ series2.dtype = "float64" /\ numeric /\ wasm
            THEN LET b1 == [i \in 1..Len(values1) |-> EncodeF64(values1[i])]
                     b2 == [i \in 1..Len(values2) |-> EncodeF64(values2[i])]
                     indices == BackendSortTwoColumns(b1, b2, ascending, ascending)
                 IN {SortResult("wasm_f64_2", indices, reorderByIndices(df, indices))}
            ELSE IF series1.dtype = "int32" /\ series2.dtype = "int32" /\ numeric /\ wasm
            THEN LET b1 == [i \in 1..Len(values1) |-> EncodeI32(values1[i])]
                     b2 == [i \in 1..Len(values2) |-> EncodeI32(values2[i])]
                     indices == BackendSortTwoColumns(b1, b2, ascending, ascending)
                 IN {SortResult("wasm_i32_2", indices, reorderByIndices(df, indices))}
            ELSE LET cmp[a \in 1..Length(df), b \in 1..Length(df)] == compare2(values1[a], values1[b],
                                           values2[a], values2[b], ascending)
                 IN {SortResult("js_2", Seqs(p), reorderByIndices(df, Seqs(p))) :
                        p \in SortOutcomes(Length(df), cmp)}

\* sortValues(by, ascending): the set of outcomes the call can have
sortValues(df, sortColumns, ascending, wasm) ==
    IF Len(sortColumns) = 1 THEN sortValues1(df, sortColumns[1], ascending, wasm)
    ELSE IF Len(sortColumns) = 2 THEN sortValues2(df, sortColumns, ascending, wasm)
    ELSE sortValuesN(df, sortColumns, ascending)

\* sortIndex(ascending)
sortIndex(df, ascending) ==
    LET cmp[a \in 1..Length(df), b \in 1..Length(df)] ==
            LET comparison == IF JsLt(df.index[a], df.index[b]) THEN -1
                              ELSE IF JsGt(df.index[a], df.index[b]) THEN 1 ELSE 0
            IN IF ascending THEN comparison ELSE -comparison
    IN {SortResult("index", Seqs(p), reorderByIndices(df, Seqs(p))) :
           p \in SortOutcomes(Length(df), cmp)}

----------------------------------------------------------------------------
(* WasmEngine.instance as sortValues uses it (src/wasm_engine.ts is not    *)
(* part of the sources): registerSeriesF64 / registerSeriesI32 hand out a  *)
(* new series id, freeSeries / freeSeriesI32 give one back, and a sort     *)
(* call of a faulty engine throws once.  engine.series is the set of ids   *)
(* the engine holds, engine.log the calls it received from the operation   *)
(* called last.                                                             *)

IdleEngine == [series |-> {}, faulty |-> FALSE, log |-> <<>>]

\* the id the engine hands out next
NextId(series) ==
    IF series = {} THEN 1
    ELSE (CHOOSE m \in series : \A k \in series : k <= m) + 1

EngineCall(name, ids) == [call |-> name, ids |-> ids]

\* the calls sortValues makes to the engine on a path, in order; a sort call
\* that throws ends the calls
EngineCalls(path, series, fails) ==
    LET id1 == NextId(series)
        id2 == NextId(series) + 1
    IN IF path \in {"wasm_f64", "wasm_i32"}
       THEN <<EngineCall("register", <<id1>>), EngineCall("sort", <<id1>>)>>
              \o (IF fails THEN <<>> ELSE <<EngineCall("free", <<id1>>)>>)
       ELSE IF path \in {"wasm_f64_2", "wasm_i32_2"}
       THEN <<EngineCall("register", <<id1>>), EngineCall("register", <<id2>>),
              EngineCall("sort", <<id1, id2>>)>>
              \o (IF fails THEN <<>>
                  ELSE <<EngineCall("free", <<id1>>),
                         EngineCall("free", <<id2>>)>>)
       ELSE <<>>

\* the ids of the calls of one kind in a log
LoggedIds(log, name) ==
    {log[k].ids[1] : k \in {h \in 1..Len(log) : log[h].call = name}}

\* the engine after the calls of log
EngineAfter(e, log) ==
    [series |-> (e.series \cup LoggedIds(log, "register"))
                    \ LoggedIds(log, "free"),
     faulty |-> e.faulty /\ \A k \in 1..Len(log) : log[k].call # "sort",
     log |-> log]

\* one sortValues call on df: its outcome and the engine after it
SortValuesOn(df) ==
    \E r \in sortValues(df, inp.by, inp.ascending, wasmEnabled) :
        LET fails == engine.faulty /\ EngineCalls(r.path, {}, FALSE) # <<>>
        IN /\ res' = IF fails
                     THEN SortResult("wasm_throw", <<>>,
                                     Error("BackendFailed", <<>>))
                     ELSE r
           /\ engine' = EngineAfter(engine,
                                    EngineCalls(r.path, engine.series, fails))

----------------------------------------------------------------------------
(* Inputs of the sort engine.                                               *)

\* column names
ColA == <<"a">>
ColB == <<"b">>
ColC == <<"c">>
ColX == <<"x">>

NoResult == SortResult("none", <<>>, Error("", <<>>))

SortValuesA == {Num(1), NumF(1, 5), Num(MinInt32), Null, Undef}
SortValuesB == {Num(1), NumF(1, 5)}

\* the tables sortValues is applied to: columns a and b, default index
SortFrames(rows) ==
    UNION {{DataFrame(<<<<ColA, va>>, <<ColB, vb>>>>, Absent, Absent) :
               va \in [1..n -> SortValuesA], vb \in [1..n -> SortValuesB]} :
           n \in 1..rows}

\* row labels
RowR == Str(<<"r">>)
RowS == Str(<<"s">>)

\* tables whose rows differ in column a and whose labels come from {r, s}:
\* labels repeat
SortLabelFrames(rows) ==
    UNION {{DataFrame(<<<<ColA, [i \in 1..n |-> Num(i)]>>,
                        <<ColB, [i \in 1..n |-> Num(1)]>>>>,
                      Absent, Given(ix)) :
               ix \in [1..n -> {RowR, RowS}]} :
           n \in 1..rows}

\* the key lists passed as `by`; x is not a column
SortBys ==
    {<<ColA>>, <<ColB>>, <<ColA, ColB>>, <<ColB, ColA>>, <<ColA, ColB, ColA>>,
     <<ColX>>, <<ColA, ColX>>}

IdleHeap == <<>>

\* a caller holding a table and the arguments of its sort call
SortInit ==
    /\ op = "init"
    /\ inp \in {[df |-> d, by |-> by, ascending |-> asc] :
                   d \in SortFrames(SortMaxRows)
                            \cup SortLabelFrames(SortMaxRows),
                   by \in SortBys, asc \in BOOLEAN}
    /\ res = NoResult
    /\ wasmEnabled \in BOOLEAN
    /\ heap = IdleHeap
    /\ tables = <<>>
    /\ objs = <<>>
    /\ engine = IdleEngine

\* globalThis.DF_USE_WASM_ENGINE = b, read by isWasmEngineEnabled()
SetWasmEngine(b) ==
    /\ wasmEnabled # b
    /\ wasmEnabled' = b
    /\ UNCHANGED <<op, inp, res, heap, tables, objs, engine>>

\* df.sortValues(by, ascending)
SortValues ==
    /\ SortValuesOn(inp.df)
    /\ op' = "sortValues"
    /\ UNCHANGED <<inp, wasmEnabled, heap, tables, objs>>

\* sorted.sortValues(by, ascending), on the table the last sortValues call
\* returned
SortValuesAgain ==
    /\ op = "sortValues"
    /\ res.out.ok
    /\ SortValuesOn(res.out)
    /\ op' = "sortValuesAgain"
    /\ UNCHANGED <<inp, wasmEnabled, heap, tables, objs>>

\* df.sortIndex(ascending)
SortIndex ==
    /\ res' \in sortIndex(inp.df, inp.ascending)
    /\ op' = "sortIndex"
    /\ engine' = EngineAfter(engine, <<>>)
    /\ UNCHANGED <<inp, wasmEnabled, heap, tables, objs>>

SortNext ==
    \/ \E b \in BOOLEAN : SetWasmEngine(b)
    \/ SortValues
    \/ SortValuesAgain
    \/ SortIndex

SpecSort == SortInit /\ [][SortNext]_vars

\* the values of the first key column, in result order
FirstKey(r) ==
    [i \in 1..Len(r.indices) |-> MapGet(inp.df.data, inp.by[1]).values[r.indices[i]]]

\* C1: after sortValues, on every path and for both directions, no row whose
\* (first) key is Missing comes before a row whose key is non-missing.
MissingLast ==
    (op = "sortValues" /\ res.out.ok) =>
        \A i \in 1..Len(res.indices) : \A j \in (i + 1)..Len(res.indices) :
            ~(IsNullish(FirstKey(res)[i]) /\ ~IsNullish(FirstKey(res)[j]))

AccelPaths == {"wasm_f64", "wasm_i32", "wasm_f64_2", "wasm_i32_2"}
SoftPaths == {"js_1", "js_2", "js_n"}

\* a column whose inferred dtype is int32 holds integers (and Missing) only
WellTyped(series) ==
    series.dtype = "int32" =>
        \A i \in 1..Len(series.values) : series.values[i].f = 0

\* C6: the same sortValues call made with the toggle on (and the accelerated
\* path taken) and with the toggle off returns the same row order.
AccelEqualsSoftware ==
    [][(/\ op = "sortValues" /\ op' = "sortValues"
        /\ \/ (res.path \in AccelPaths /\ res'.path \in SoftPaths)
           \/ (res.path \in SoftPaths /\ res'.path \in AccelPaths)
        /\ \A c \in 1..Len(inp.by) : WellTyped(MapGet(inp.df.data, inp.by[c])))
       => res'.indices = res.indices]_vars

\* the requested key values of the row at source position r
SortKey(r) ==
    [c \in 1..Len(inp.by) |-> MapGet(inp.df.data, inp.by[c]).values[r]]

\* two rows are equal on every requested key (Missing equals Missing)
SameSortKey(r1, r2) ==
    \A c \in 1..Len(inp.by) :
        \/ IsNullish(SortKey(r1)[c]) /\ IsNullish(SortKey(r2)[c])
        \/ SortKey(r1)[c] = SortKey(r2)[c]

\* C13: ties are stable: in the result of sortValues two rows equal on all
\* requested keys keep their original relative order, and in the result of
\* sortIndex two rows with equal Labels keep their original relative order.
TiesKeepOrder ==
    /\ (op = "sortValues" /\ res.out.ok) =>
           \A i \in 1..Len(res.indices) : \A j \in (i + 1)..Len(res.indices) :
               SameSortKey(res.indices[i], res.indices[j])
                   => res.indices[i] < res.indices[j]
    /\ (op = "sortIndex" /\ res.out.ok) =>
           \A i \in 1..Len(res.indices) : \A j \in (i + 1)..Len(res.indices) :
               inp.df.index[res.indices[i]] = inp.df.index[res.indices[j]]
                   => res.indices[i] < res.indices[j]

\* what a table shows: its columns, its row labels and its values
TableContent(df) == <<df.columns, df.index, ValuesMap(df)>>

\* C14: sorting is idempotent: sorting the result of sortValues again, by
\* the same keys and direction (and with the toggle as it was), returns a
\* table with the same row order, Labels and values.
SortIsIdempotent ==
    [][(/\ op = "sortValues" /\ op' = "sortValuesAgain"
        /\ (res.path \in AccelPaths) = (res'.path \in AccelPaths))
       => TableContent(res'.out) = TableContent(res.out)]_vars

\* the requested key columns on which two rows differ (Missing equals
\* Missing)
DifferingKeys(r1, r2) ==
    {c \in 1..Len(inp.by) :
        ~(\/ IsNullish(SortKey(r1)[c]) /\ IsNullish(SortKey(r2)[c])
          \/ SortKey(r1)[c] = SortKey(r2)[c])}

\* the first requested key column on which two rows differ
FirstDifferingKey(r1, r2) ==
    CHOOSE c \in DifferingKeys(r1, r2) : \A d \in DifferingKeys(r1, r2) : c <= d

\* C24: on the software paths sortValues orders rows lexicographically over
\* the requested columns: of two rows, the first column on which they differ
\* decides, by the order a sort on that column alone uses; and the one- and
\* two-column paths return an order the N-column path returns for these keys.
SortIsLexicographic ==
    (op = "sortValues" /\ res.out.ok /\ res.path \in SoftPaths) =>
        /\ \A i \in 1..Len(res.indices) : \A j \in (i + 1)..Len(res.indices) :
               DifferingKeys(res.indices[i], res.indices[j]) # {} =>
                   compare1(
                       SortKey(res.indices[i])[
                           FirstDifferingKey(res.indices[i], res.indices[j])],
                       SortKey(res.indices[j])[
                           FirstDifferingKey(res.indices[i], res.indices[j])],
                       inp.ascending) <= 0
        /\ res.indices
               \in {r.indices : r \in sortValuesN(inp.df, inp.by, inp.ascending)}

----------------------------------------------------------------------------
(* The backend specification: a caller sorts tables with the acceleration  *)
(* on while the engine's sort call may fail.                                *)

\* rows of a table sorted while the engine may fail
BackendMaxRows == 2

\* series ids the engine may hold when a fault sets in
BackendMaxSeries == 2

BackendInit ==
    /\ op = "init"
    /\ inp \in {[df |-> d, by |-> by, ascending |-> asc] :
                   d \in SortFrames(BackendMaxRows),
                   by \in SortBys, asc \in BOOLEAN}
    /\ res = NoResult
    /\ wasmEnabled = TRUE
    /\ heap = IdleHeap
    /\ tables = <<>>
    /\ objs = <<>>
    /\ engine = IdleEngine

\* the engine's next sort call will throw
InjectFault ==
    /\ ~engine.faulty
    /\ Cardinality(engine.series) < BackendMaxSeries
    /\ engine' = [engine EXCEPT !.faulty = TRUE]
    /\ UNCHANGED <<op, inp, res, wasmEnabled, heap, tables, objs>>

BackendNext == SortValues \/ InjectFault

SpecBackend == BackendInit /\ [][BackendNext]_vars

\* C28: every handle sortValues registers with the backend is released
\* exactly once before the call completes, whether it returns or the
\* backend's sort call fails, and no handle is passed to the backend after
\* its release; so the backend holds no handle after any sequence of calls.
HandlesReleased ==
    /\ engine.series = {}
    /\ \A k \in 1..Len(engine.log) :
           engine.log[k].call = "register" =>
               /\ Cardinality({h \in (k + 1)..Len(engine.log) :
                                  /\ engine.log[h].call = "free"
                                  /\ engine.log[h].ids = engine.log[k].ids}) = 1
               /\ \A h \in (k + 1)..Len(engine.log) :
                      (engine.log[h].call = "free"
                          /\ engine.log[h].ids = engine.log[k].ids) =>
                          \A g \in (h + 1)..Len(engine.log) :
                              \A x \in 1..Len(engine.log[g].ids) :
                                  engine.log[g].ids[x] # engine.log[k].ids[1]

----------------------------------------------------------------------------
(* The query engine: parser.                                                *)

\* s.indexOf(pat), 1-based; 0 when pat does not occur
IndexOf(s, pat) ==
    LET hits == {i \in 1..(Len(s) - Len(pat) + 1) : SubSeq(s, i, i + Len(pat) - 1) = pat}
    IN IF hits = {} THEN 0 ELSE CHOOSE i \in hits : \A j \in hits : i <= j

\* s.includes(pat)
StrIncludes(s, pat) == IndexOf(s, pat) # 0

StartsWith(s, c) == s # <<>> /\ s[1] = c
EndsWith(s, c) == s # <<>> /\ s[Len(s)] = c

\* s.slice(1, -1)
Slice1(s) == SubSeq(s, 2, Len(s) - 1)

OpAnd == <<" ", "a", "n", "d", " ">>
OpOr == <<" ", "o", "r", " ">>

\* the loop of _splitByOperator from position i on: the position of the
\* first occurrence of operator at parenthesis depth 0, or 0
RECURSIVE SplitScan(_, _, _, _)
SplitScan(expression, operator, i, depth) ==
    IF i > Len(expression) - Len(operator) + 1 THEN 0
    ELSE IF expression[i] = "(" THEN SplitScan(expression, operator, i + 1, depth + 1)
    ELSE IF expression[i] = ")" THEN SplitScan(expression, operator, i + 1, depth - 1)
    ELSE IF depth = 0 /\ SubSeq(expression, i, i + Len(operator) - 1) = operator THEN i
    ELSE SplitScan(expression, operator, i + 1, depth)

\* _splitByOperator(expression, operator)
splitByOperator(expression, operator) ==
    LET i == SplitScan(expression, operator, 1, 0)
    IN IF i = 0 THEN <<expression>>
       ELSE << Trim(SubSeq(expression, 1, i - 1)),
               Trim(SubSeq(expression, i + Len(operator), Len(expression))) >>

\* _parseValue(valueStr)
parseValue(valueStr) ==
    IF \/ (StartsWith(valueStr, "\"") /\ EndsWith(valueStr, "\""))
       \/ (StartsWith(valueStr, "'") /\ EndsWith(valueStr, "'"))
    THEN Str(Slice1(valueStr))
    ELSE IF valueStr = <<"n", "u", "l", "l">> THEN Null
    ELSE IF valueStr = <<"u", "n", "d", "e", "f", "i", "n", "e", "d">> THEN Undef
    ELSE IF valueStr = <<"t", "r", "u", "e">> THEN Bool(TRUE)
    ELSE IF valueStr = <<"f", "a", "l", "s", "e">> THEN Bool(FALSE)
    ELSE IF StrToNumber(valueStr).t = "num" THEN StrToNumber(valueStr)
    ELSE Str(valueStr)

\* const operators = [">=", "<=", "==", "!=", ">", "<"]
Operators == << <<">", "=">>, <<"<", "=">>, <<"=", "=">>, <<"!", "=">>, <<">">>, <<"<">> >>

\* query nodes; a thrown parse error is the node of type "error"
Condition(column, operator, value) ==
    [type |-> "condition", column |-> column, operator |-> operator, value |-> value]
ParseError(kind) ==
    [type |-> "error", column |-> <<>>, operator |-> <<>>, value |-> Null, kind |-> kind]

\* _parseSimpleCondition(condition)
parseSimpleCondition(df, condition0) ==
    LET condition == IF StartsWith(condition0, "(") /\ EndsWith(condition0, ")")
                     THEN Trim(Slice1(condition0)) ELSE condition0
        found == {k \in 1..Len(Operators) : IndexOf(condition, Operators[k]) # 0}
    IN IF found = {} THEN ParseError("InvalidCondition")
       ELSE LET k == CHOOSE k \in found : \A j \in found : k <= j
                operator == Operators[k]
                index == IndexOf(condition, operator)
                column == Trim(SubSeq(condition, 1, index - 1))
                value == Trim(SubSeq(condition, index + Len(operator), Len(condition)))
            IN IF value = <<>> THEN ParseError("MissingValue")
               ELSE IF ~Includes(df.columns, column) THEN ParseError("ColumnNotFound")
               ELSE Condition(column, operator, parseValue(value))

\* _parseQueryExpression with the search for " or " made before the search
\* for " and "
RECURSIVE parseQueryExpressionOrFirst(_, _)
parseQueryExpressionOrFirst(df, expression) ==
    LET trimmed == Trim(expression)
        andParts == splitByOperator(trimmed, OpAnd)
        orParts == splitByOperator(trimmed, OpOr)
    IN IF StrIncludes(trimmed, OpOr) /\ Len(orParts) = 2
       THEN [type |-> "or",
             left |-> parseQueryExpressionOrFirst(df, orParts[1]),
             right |-> parseQueryExpressionOrFirst(df, orParts[2])]
       ELSE IF StrIncludes(trimmed, OpAnd) /\ Len(andParts) = 2
       THEN [type |-> "and",
             left |-> parseQueryExpressionOrFirst(df, andParts[1]),
             right |-> parseQueryExpressionOrFirst(df, andParts[2])]
       ELSE parseSimpleCondition(df, trimmed)

\* _parseQueryExpression(expression)
RECURSIVE parseQueryExpression(_, _)
parseQueryExpression(df, expression) ==
    LET trimmed == Trim(expression)
        andParts == splitByOperator(trimmed, OpAnd)
        orParts == splitByOperator(trimmed, OpOr)
    IN IF StrIncludes(trimmed, OpAnd) /\ Len(andParts) = 2
       THEN [type |-> "and",
             left |-> parseQueryExpression(df, andParts[1]),
             right |-> parseQueryExpression(df, andParts[2])]
       ELSE IF StrIncludes(trimmed, OpOr) /\ Len(orParts) = 2
       THEN [type |-> "or",
             left |-> parseQueryExpression(df, orParts[1]),
             right |-> parseQueryExpression(df, orParts[2])]
       ELSE parseSimpleCondition(df, trimmed)

\* whether parsing threw (the first error raised, left before right)
RECURSIVE ParseThrows(_)
ParseThrows(node) ==
    IF node.type = "error" THEN TRUE
    ELSE IF node.type = "condition" THEN FALSE
    ELSE ParseThrows(node.left) \/ ParseThrows(node.right)

----------------------------------------------------------------------------
(* The query engine: evaluation.                                            *)

\* a == b (loose equality)
LooseEq(a, b) ==
    IF IsNullish(a) \/ IsNullish(b) THEN IsNullish(a) /\ IsNullish(b)
    ELSE IF a.t = b.t THEN StrictEq(a, b)
    ELSE LET x == ToNumber(a)
             y == ToNumber(b)
         IN x.t = "num" /\ x = y

\* _evaluateCondition with == and != written as loose (in)equality
evaluateConditionLoose(df, condition) ==
    LET values == MapGet(df.data, condition.column).values
        targetValue == condition.value
        test(v) ==
            CASE condition.operator = <<">">> ->
                     ~IsNullish(v) /\ ~IsNullish(targetValue) /\ JsGt(v, targetValue)
              [] condition.operator = <<"<">> ->
                     ~IsNullish(v) /\ ~IsNullish(targetValue) /\ JsLt(v, targetValue)
              [] condition.operator = <<">", "=">> ->
                     ~IsNullish(v) /\ ~IsNullish(targetValue) /\ JsGe(v, targetValue)
              [] condition.operator = <<"<", "=">> ->
                     ~IsNullish(v) /\ ~IsNullish(targetValue) /\ JsLe(v, targetValue)
              [] condition.operator = <<"=", "=">> -> LooseEq(v, targetValue)
              [] condition.operator = <<"!", "=">> -> ~LooseEq(v, targetValue)
    IN [i \in 1..Len(values) |-> test(values[i])]

\* _evaluateCondition with the ordering operators applied without the test
\* for a Missing operand
evaluateConditionUnguarded(df, condition) ==
    LET values == MapGet(df.data, condition.column).values
        targetValue == condition.value
        test(v) ==
            CASE condition.operator = <<">">> -> JsGt(v, targetValue)
              [] condition.operator = <<"<">> -> JsLt(v, targetValue)
              [] condition.operator = <<">", "=">> -> JsGe(v, targetValue)
              [] condition.operator = <<"<", "=">> -> JsLe(v, targetValue)
              [] condition.operator = <<"=", "=">> -> StrictEq(v, targetValue)
              [] condition.operator = <<"!", "=">> -> ~StrictEq(v, targetValue)
    IN [i \in 1..Len(values) |-> test(values[i])]

\* _evaluateCondition(condition): the mask over the column's values
evaluateCondition(df, condition) ==
    LET values == MapGet(df.data, condition.column).values
        targetValue == condition.value
        test(v) ==
            CASE condition.operator = <<">">> ->
                     ~IsNullish(v) /\ ~IsNullish(targetValue) /\ JsGt(v, targetValue)
              [] condition.operator = <<"<">> ->
                     ~IsNullish(v) /\ ~IsNullish(targetValue) /\ JsLt(v, targetValue)
              [] condition.operator = <<">", "=">> ->
                     ~IsNullish(v) /\ ~IsNullish(targetValue) /\ JsGe(v, targetValue)
              [] condition.operator = <<"<", "=">> ->
                     ~IsNullish(v) /\ ~IsNullish(targetValue) /\ JsLe(v, targetValue)
              [] condition.operator = <<"=", "=">> -> StrictEq(v, targetValue)
              [] condition.operator = <<"!", "=">> -> ~StrictEq(v, targetValue)
    IN [i \in 1..Len(values) |-> test(values[i])]

\* _evaluateCondition throws when the column has no Series
RECURSIVE EvalThrows(_, _)
EvalThrows(df, node) ==
    IF node.type = "condition" THEN ~MapHas(df.data, node.column)
    ELSE EvalThrows(df, node.left) \/ EvalThrows(df, node.right)

\* _evaluateQuery / _evaluateNode
RECURSIVE evaluateNode(_, _)
evaluateNode(df, node) ==
    IF node.type = "condition" THEN evaluateCondition(df, node)
    ELSE LET leftResult == evaluateNode(df, node.left)
             rightResult == evaluateNode(df, node.right)
         IN IF node.type = "and"
            THEN [i \in 1..Len(leftResult) |-> leftResult[i] /\ rightResult[i]]
            ELSE [i \in 1..Len(leftResult) |-> leftResult[i] \/ rightResult[i]]

\* the positions of the false entries of a mask, ascending
RECURSIVE FalsePositions(_, _)
FalsePositions(mask, i) ==
    IF i > Len(mask) THEN <<>>
    ELSE (IF mask[i] THEN <<>> ELSE <<i>>) \o FalsePositions(mask, i + 1)

\* the positions of the true entries of a mask, ascending
RECURSIVE TruePositions(_, _)
TruePositions(mask, i) ==
    IF i > Len(mask) THEN <<>>
    ELSE (IF mask[i] THEN <<i>> ELSE <<>>) \o TruePositions(mask, i + 1)

\* filter(mask)
filter(df, mask) ==
    IF Len(mask) # Length(df) THEN Error("LengthMismatch", <<"m", "a", "s", "k">>)
    ELSE LET keep == TruePositions(mask, 1)
             newIndex == [i \in 1..Len(keep) |-> df.index[keep[i]]]
             newData == [c \in 1..Len(df.data) |->
                            <<df.data[c][1],
                              [i \in 1..Len(keep) |-> df.data[c][2].values[keep[i]]]>>]
         IN DataFrame(newData, Absent, Given(newIndex))

\* query(expression)
query(df, expression) ==
    LET parsedQuery == parseQueryExpression(df, expression)
    IN IF ParseThrows(parsedQuery) \/ EvalThrows(df, parsedQuery)
       THEN Error("QueryEvaluationFailed", expression)
       ELSE filter(df, evaluateNode(df, parsedQuery))

----------------------------------------------------------------------------
(* Inputs of the query engine.                                              *)

\* rows of a table handed to query
QueryMaxRows == 2

QueryValuesA == {Num(1), Num(2), Null, Undef}
QueryValuesB == <<Str(<<"x">>), Str(<<"x", " ", "a", "n", "d", " ", "y">>)>>

\* the string columns: the two values in turn, starting with either
QueryColumnsB(n) ==
    {[i \in 1..n |-> QueryValuesB[1 + ((i + k) % 2)]] : k \in 0..1}

\* the tables query is applied to: a numeric column a, a string column b
QueryFrames(rows) ==
    UNION {{DataFrame(<<<<ColA, va>>, <<ColB, vb>>>>, Absent, Absent) :
               va \in [1..n -> QueryValuesA], vb \in QueryColumnsB(n)} :
           n \in 1..rows}

Sp == <<" ">>

\* literals as written in an expression
LitNull == <<"n", "u", "l", "l">>
LitUndefined == <<"u", "n", "d", "e", "f", "i", "n", "e", "d">>
QueryLiterals == {<<"1">>, <<"2">>, LitNull, LitUndefined, <<"'", "x", "'">>}

\* "column op literal"
Cond(column, operator, literal) == column \o Sp \o operator \o Sp \o literal

SimpleConditions ==
    {Cond(c, Operators[k], l) : c \in {ColA, ColB}, k \in 1..Len(Operators),
                                l \in QueryLiterals}

\* the conditions combined into compound expressions
QueryAtoms == {<<"a", " ", ">", " ", "1">>, <<"a", " ", "<", "=", " ", "1">>, <<"b", " ", "=", "=", " ", "'", "x", "'">>}

Paren(e) == <<"(">> \o e \o <<")">>
AndOf(x, y) == x \o OpAnd \o y
OrOf(x, y) == x \o OpOr \o y

CompoundExpressions ==
    UNION {{AndOf(x, y), OrOf(x, y),
            OrOf(Paren(AndOf(x, y)), z), AndOf(Paren(OrOf(x, y)), z),
            OrOf(x, Paren(AndOf(y, z))),
            OrOf(x, AndOf(y, z)), OrOf(AndOf(x, y), z)} :
           x \in QueryAtoms, y \in QueryAtoms, z \in QueryAtoms}

\* conditions whose quoted literal holds a connective or an operator character
QuotedExpressions == {<<"b", " ", "=", "=", " ", "\"", "x", " ", "a", "n", "d", " ", "y", "\"">>, <<"b", " ", "=", "=", " ", "'", "x", " ", "o", "r", " ", "y", "'">>, <<"b", " ", "=", "=", " ", "\"", "a", ">", "=", "b", "\"">>}

\* malformed expressions, by kind
NoLiteral == {<<"a", " ", ">">>, <<"a", " ", ">", "=", " ">>, <<"a", " ", ">", " ", "1", " ", "a", "n", "d", " ", "b", " ", "=", "=">>}
UnknownColumn == {<<"x", " ", ">", " ", "1">>, <<"a", " ", ">", " ", "1", " ", "o", "r", " ", "x", " ", "=", "=", " ", "2">>}
NoOperator == {<<"a">>, <<"a", " ", ">", " ", "1", " ", "a", "n", "d", " ", "b">>}
DanglingConnective == {<<"a", " ", ">", " ", "1", " ", "a", "n", "d", " ">>, <<" ", "a", "n", "d", " ", "a", " ", ">", " ", "1">>, <<"a", " ", ">", " ", "1", " ", "o", "r", " ">>, <<"a", " ", ">", " ", "1", " ", "a", "n", "d", " ", " ", "a", "n", "d", " ", "a", " ", "<", "=", " ", "1">>}
UnbalancedParen == {<<"(", "a", " ", ">", " ", "1">>, <<"a", " ", ">", " ", "1", ")">>, <<"(", "a", " ", ">", " ", "1", " ", "a", "n", "d", " ", "a", " ", "<", "=", " ", "1">>, <<"a", " ", ">", " ", "1", " ", "o", "r", " ", "(", "b", " ", "=", "=", " ", "'", "x", "'">>}

Malformed ==
    NoLiteral \cup UnknownColumn \cup NoOperator \cup DanglingConnective
        \cup UnbalancedParen

QueryExpressions ==
    SimpleConditions \cup CompoundExpressions \cup QuotedExpressions \cup Malformed

QueryInit ==
    /\ op = "init"
    /\ inp \in {[df |-> d, expression |-> e] :
                   d \in QueryFrames(QueryMaxRows),
                   e \in QueryExpressions}
    /\ res = Error("", <<>>)
    /\ wasmEnabled = FALSE
    /\ heap = IdleHeap
    /\ tables = <<>>
    /\ objs = <<>>
    /\ engine = IdleEngine

\* df.query(expression)
Query ==
    /\ res' = query(inp.df, inp.expression)
    /\ op' = "query"
    /\ UNCHANGED <<inp, wasmEnabled, heap, tables, objs, engine>>

QueryNext == Query

SpecQuery == QueryInit /\ [][QueryNext]_vars

\* the mask of one well-formed condition
MaskOf(df, condition) == evaluateCondition(df, parseSimpleCondition(df, condition))

\* C2: a parenthesized subexpression is parsed as an expression:
\* query('(A and B) or C') returns the rows of (mask(A) AND mask(B)) OR mask(C).
ParenthesizedIsExpression ==
    op = "query" =>
        \A x \in QueryAtoms, y \in QueryAtoms, z \in QueryAtoms :
            inp.expression = OrOf(Paren(AndOf(x, y)), z) =>
                res = filter(inp.df,
                             [i \in 1..Length(inp.df) |->
                                 \/ (MaskOf(inp.df, x)[i] /\ MaskOf(inp.df, y)[i])
                                 \/ MaskOf(inp.df, z)[i]])

\* C7: query fails for every malformed expression (no literal, unknown
\* column, no operator, a connective lacking an operand, an unbalanced
\* parenthesis) and returns no table.
MalformedQueryFails ==
    (op = "query" /\ inp.expression \in Malformed) => ~res.ok

OpEq == <<"=", "=">>

\* the Labels of the rows of df whose value in column c satisfies want
RowsWhere(df, c, kinds) ==
    LET values == MapGet(df.data, c).values
        mask == [i \in 1..Len(values) |-> values[i].t \in kinds]
        keep == TruePositions(mask, 1)
    IN [i \in 1..Len(keep) |-> df.index[keep[i]]]

IsNull(v) == v.t = "null"
IsUndefined(v) == v.t = "undef"

QuotedText(e) == SubSeq(e, 7, Len(e) - 1)

\* C27: a quoted literal is taken whole as a string: a condition whose quoted
\* text holds " and ", " or " or a comparison-operator character is one
\* condition that compares the column with the text between the quotes.
QuotedLiteralTakenWhole ==
    (op = "query" /\ inp.expression \in QuotedExpressions) =>
        /\ res.ok
        /\ res.index
               = LET values == MapGet(inp.df.data, ColB).values
                     keep == {i \in 1..Len(values) :
                                 values[i] = Str(QuotedText(inp.expression))}
                 IN [k \in 1..Cardinality(keep) |->
                        inp.df.index[CHOOSE i \in keep :
                            Cardinality({h \in keep : h <= i}) = k]]

\* the elementwise combinations of two masks
MaskAnd(m1, m2) == [i \in 1..Len(m1) |-> m1[i] /\ m2[i]]
MaskOr(m1, m2) == [i \in 1..Len(m1) |-> m1[i] \/ m2[i]]

\* the type of the root node the parser builds for the expression queried
RootType == parseQueryExpression(inp.df, inp.expression).type

\* C15: the first top-level " and " is the outermost split: "A or B and C"
\* is evaluated as (A or B) and C, "A and B or C" as A and (B or C); " or "
\* is the split point only when no " and " stands at parenthesis depth 0.
AndIsOutermostSplit ==
    op = "query" =>
        \A x \in QueryAtoms, y \in QueryAtoms, z \in QueryAtoms :
            LET mx == MaskOf(inp.df, x)
                my == MaskOf(inp.df, y)
                mz == MaskOf(inp.df, z)
            IN /\ inp.expression = OrOf(x, AndOf(y, z)) =>
                      /\ RootType = "and"
                      /\ res = filter(inp.df, MaskAnd(MaskOr(mx, my), mz))
               /\ inp.expression = OrOf(AndOf(x, y), z) =>
                      /\ RootType = "and"
                      /\ res = filter(inp.df, MaskAnd(mx, MaskOr(my, mz)))
               /\ inp.expression = AndOf(Paren(OrOf(x, y)), z) =>
                      RootType = "and"
               /\ inp.expression = OrOf(x, y) =>
                      /\ RootType = "or"
                      /\ res = filter(inp.df, MaskOr(mx, my))
               /\ inp.expression \in {OrOf(Paren(AndOf(x, y)), z),
                                      OrOf(x, Paren(AndOf(y, z)))} =>
                      RootType = "or"

\* "A or B and C" has been queried on a table where (A or B) and C selects
\* other rows than A or (B and C)
AndSplitChangesResult ==
    /\ op = "query"
    /\ res.ok
    /\ \E x \in QueryAtoms, y \in QueryAtoms, z \in QueryAtoms :
           /\ inp.expression = OrOf(x, AndOf(y, z))
           /\ res # filter(inp.df, MaskOr(MaskOf(inp.df, x),
                                          MaskAnd(MaskOf(inp.df, y),
                                                  MaskOf(inp.df, z))))

\* the value a literal of the model's expressions denotes
LiteralValue(l) ==
    CASE l = <<"1">> -> Num(1)
      [] l = <<"2">> -> Num(2)
      [] l = LitNull -> Null
      [] l = LitUndefined -> Undef
      [] l = <<"'", "x", "'">> -> Str(<<"x">>)

\* v comes before t in the natural order of their common type
ValueLess(v, t) ==
    \/ v.t = "num" /\ t.t = "num" /\ (v.n < t.n \/ (v.n = t.n /\ v.f < t.f))
    \/ v.t = "str" /\ t.t = "str" /\ StrLt(v.s, t.s)

\* the comparison "v operator t": an ordering comparison is false when v or
\* t is Missing, == holds between identical values
ConditionHolds(v, operator, t) ==
    CASE operator = <<">">> ->
             ~IsNullish(v) /\ ~IsNullish(t) /\ ValueLess(t, v)
      [] operator = <<"<">> ->
             ~IsNullish(v) /\ ~IsNullish(t) /\ ValueLess(v, t)
      [] operator = <<">", "=">> ->
             ~IsNullish(v) /\ ~IsNullish(t) /\ (ValueLess(t, v) \/ v = t)
      [] operator = <<"<", "=">> ->
             ~IsNullish(v) /\ ~IsNullish(t) /\ (ValueLess(v, t) \/ v = t)
      [] operator = <<"=", "=">> -> v = t
      [] operator = <<"!", "=">> -> v # t

\* the mask of the condition "column operator literal" over the rows of df
ConditionMask(df, column, operator, literal) ==
    [i \in 1..Length(df) |->
        ConditionHolds(MapGet(df.data, column).values[i], operator,
                       LiteralValue(literal))]

\* the conditions of QueryAtoms as <<column, operator, literal>>
AtomParts ==
    {<<ColA, <<">">>, <<"1">>>>, <<ColA, <<"<", "=">>, <<"1">>>>,
     <<ColB, <<"=", "=">>, <<"'", "x", "'">>>>}

AtomText(p) == Cond(p[1], p[2], p[3])
AtomMask(df, p) == ConditionMask(df, p[1], p[2], p[3])

\* the Labels of a result are Labels of the receiver in their original order
\* (the receiver's Labels are 0, 1, ...)
LabelsInOrder(index) ==
    \A i \in 1..Len(index) : \A j \in (i + 1)..Len(index) :
        index[i].n < index[j].n

\* C16: for a well-formed query of conditions "column op literal" joined by
\* " and " / " or ", query returns filter(mask): mask[i] is the comparison
\* of row i's value with the literal, an ordering comparison being false
\* when the value or the literal is Missing; child masks are combined
\* elementwise; the selected rows keep their order and Labels.
QueryReturnsFilteredRows ==
    op = "query" =>
        /\ \A c \in {ColA, ColB}, k \in 1..Len(Operators), l \in QueryLiterals :
               inp.expression = Cond(c, Operators[k], l) =>
                   /\ res = filter(inp.df,
                                   ConditionMask(inp.df, c, Operators[k], l))
                   /\ res.ok /\ LabelsInOrder(res.index)
        /\ \A p \in AtomParts, q \in AtomParts :
               /\ inp.expression = AndOf(AtomText(p), AtomText(q)) =>
                      /\ res = filter(inp.df, MaskAnd(AtomMask(inp.df, p),
                                                      AtomMask(inp.df, q)))
                      /\ res.ok /\ LabelsInOrder(res.index)
               /\ inp.expression = OrOf(AtomText(p), AtomText(q)) =>
                      /\ res = filter(inp.df, MaskOr(AtomMask(inp.df, p),
                                                     AtomMask(inp.df, q)))
                      /\ res.ok /\ LabelsInOrder(res.index)

\* "a < 2" has been queried on a table with a Missing and a number in
\* column a, and only the row of the number is returned
MissingRowNotSelected ==
    /\ op = "query"
    /\ inp.expression = Cond(ColA, <<"<">>, <<"2">>)
    /\ Length(inp.df) = 2
    /\ MapGet(inp.df.data, ColA).values[1] = Null
    /\ MapGet(inp.df.data, ColA).values[2] = Num(1)
    /\ res.ok
    /\ res.index = <<Num(1)>>

----------------------------------------------------------------------------
(* The filter specification: a caller holding a table and a mask calls     *)
(* filter.                                                                  *)

\* rows of a table handed to filter (masks have up to one entry more)
FilterMaxRows == 2

\* tables with a column a of numbers and Missing, a column b that tells the
\* rows apart, and default Labels or Labels from {r, s}
FilterFrames(rows) ==
    UNION {{DataFrame(<<<<ColA, va>>, <<ColB, [i \in 1..n |-> Num(10 + i)]>>>>,
                      Absent, ix) :
               va \in [1..n -> {Num(1), Num(2), Null}],
               ix \in {Absent} \cup {Given(l) : l \in [1..n -> {RowR, RowS}]}} :
           n \in 0..rows}

FilterMasks(rows) == UNION {[1..n -> BOOLEAN] : n \in 0..(rows + 1)}

FilterInit ==
    /\ op = "init"
    /\ inp \in {[df |-> d, mask |-> m] :
                   d \in FilterFrames(FilterMaxRows),
                   m \in FilterMasks(FilterMaxRows)}
    /\ res = Error("", <<>>)
    /\ wasmEnabled = FALSE
    /\ heap = IdleHeap
    /\ tables = <<>>
    /\ objs = <<>>
    /\ engine = IdleEngine

\* df.filter(mask)
Filter ==
    /\ res' = filter(inp.df, inp.mask)
    /\ op' = "filter"
    /\ UNCHANGED <<inp, wasmEnabled, heap, tables, objs, engine>>

FilterNext == Filter

SpecFilter == FilterInit /\ [][FilterNext]_vars

\* the position of the j-th true entry of mask
NthTrue(mask, j) ==
    CHOOSE i \in 1..Len(mask) :
        mask[i] /\ Cardinality({h \in 1..i : mask[h]}) = j

\* C17: filter(mask) fails with a length-mismatch error when the mask's
\* length differs from the row count; otherwise it returns a table with one
\* row per true entry: the rows at the true positions, in their original
\* order, with their Labels and, in every column, their values.
FilterKeepsMaskedRows ==
    op = "filter" =>
        IF Len(inp.mask) # Length(inp.df)
        THEN ~res.ok /\ res.err = "LengthMismatch"
        ELSE LET kept == Cardinality({i \in 1..Len(inp.mask) : inp.mask[i]})
             IN /\ res.ok
                /\ Length(res) = kept
                /\ Len(res.index) = kept
                /\ \A j \in 1..kept :
                       res.index[j] = inp.df.index[NthTrue(inp.mask, j)]
                /\ \A c \in 1..Len(inp.df.columns) :
                       /\ MapHas(res.data, inp.df.columns[c])
                       /\ Includes(res.columns, inp.df.columns[c])
                       /\ MapGet(res.data, inp.df.columns[c]).values
                              = [j \in 1..kept |->
                                    MapGet(inp.df.data, inp.df.columns[c])
                                        .values[NthTrue(inp.mask, j)]]
                /\ Len(res.columns) = Len(inp.df.columns)

\* filter([false, true]) has returned the second row of a table labelled r, s
SecondRowKept ==
    /\ op = "filter"
    /\ inp.mask = <<FALSE, TRUE>>
    /\ inp.df.index = <<RowR, RowS>>
    /\ res.ok
    /\ res.index = <<RowS>>
    /\ MapGet(res.data, ColB).values = <<Num(12)>>

----------------------------------------------------------------------------
(* Inputs of the constructor.                                               *)

\* rows of a column handed to the constructor
CtorMaxRows == 2

CtorColumnsData(rows) == UNION {[1..n -> {Num(1), Null}] : n \in 0..rows}

\* the data argument: no column, column a, or columns a and b
CtorData(rows) ==
    {<<>>} \cup {<<<<ColA, va>>>> : va \in CtorColumnsData(rows)}
           \cup {<<<<ColA, va>>, <<ColB, vb>>>> :
                    va \in CtorColumnsData(rows),
                    vb \in CtorColumnsData(rows)}

\* options.columns and options.index
CtorColumnsOptions ==
    {Absent, Given(<<ColA, ColB>>), Given(<<ColX, ColB>>), Given(<<ColA>>), Given(<<>>)}
CtorIndexOptions ==
    {Absent} \cup {Given(ix) : ix \in {<<>>, <<RowR>>, <<RowR, RowS>>}}

CtorInit ==
    /\ op = "init"
    /\ inp \in {[data |-> d, columns |-> c, index |-> ix] :
                   d \in CtorData(CtorMaxRows), c \in CtorColumnsOptions, ix \in CtorIndexOptions}
    /\ res = Error("", <<>>)
    /\ wasmEnabled = FALSE
    /\ heap = IdleHeap
    /\ tables = <<>>
    /\ objs = <<>>
    /\ engine = IdleEngine

\* new DataFrame(data, { columns, index })
Construct ==
    /\ res' = DataFrame(inp.data, inp.columns, inp.index)
    /\ op' = "construct"
    /\ UNCHANGED <<inp, wasmEnabled, heap, tables, objs, engine>>

CtorNext == Construct

SpecCtor == CtorInit /\ [][CtorNext]_vars

\* C3: the constructor either fails with a length mismatch naming a column
\* whose length differs from the index length, or yields a table in which
\* every name of columns has a stored column of shape[0] values and shape[1]
\* is the number of stored columns.
ConstructedTableWellFormed ==
    op = "construct" =>
        IF res.ok
        THEN /\ \A i \in 1..Len(res.columns) :
                    /\ MapHas(res.data, res.columns[i])
                    /\ Len(MapGet(res.data, res.columns[i]).values) = res.shape[1]
             /\ res.shape[2] = Len(res.data)
        ELSE /\ res.err = "LengthMismatch"
             /\ MapHas(inp.data, res.detail)
             /\ LET ixLen == IF inp.index.given THEN Len(inp.index.v)
                             ELSE Len(inp.data[1][2])
                IN Len(MapGet(inp.data, res.detail)) # ixLen

----------------------------------------------------------------------------
(* BoxFrame.merge.                                                          *)

\* parts.join(sep)
RECURSIVE Join(_, _)
Join(parts, sep) ==
    IF parts = <<>> THEN <<>>
    ELSE IF Len(parts) = 1 THEN parts[1]
    ELSE parts[1] \o sep \o Join(Tail(parts), sep)

NullKey == <<"_", "_", "N", "U", "L", "L", "_", "_">>

\* a key string that takes only null, not undefined, as "__NULL__"
createKeyNullOnly(keyValues) ==
    Join([i \in 1..Len(keyValues) |->
             IF keyValues[i].t = "null" THEN NullKey ELSE ToStr(keyValues[i])],
         <<"|">>)

\* _createKey(keyValues)   (no Date value occurs in the model)
createKey(keyValues) ==
    Join([i \in 1..Len(keyValues) |->
             IF IsNullish(keyValues[i]) THEN NullKey ELSE ToStr(keyValues[i])],
         <<"|">>)

\* series ? series.values[i] : null
CellOr(df, col, i) ==
    IF MapHas(df.data, col) THEN MapGet(df.data, col).values[i] ELSE Null

\* keys.map((key) => ...) for row i
KeyValuesOf(df, keys, i) == [k \in 1..Len(keys) |-> CellOr(df, keys[k], i)]

\* leftKeyMap / rightKeyMap after the rows 1..n: key string -> positions
RECURSIVE KeyMap(_, _, _)
KeyMap(df, keys, n) ==
    IF n = 0 THEN <<>>
    ELSE LET m == KeyMap(df, keys, n - 1)
             key == createKey(KeyValuesOf(df, keys, n))
             old == IF MapHas(m, key) THEN MapGet(m, key) ELSE <<>>
         IN MapSet(m, key, Append(old, n))

\* Set.add of every item, in order
RECURSIVE SetAddAll(_, _)
SetAddAll(set, items) ==
    IF items = <<>> THEN set
    ELSE SetAddAll(IF Includes(set, Head(items)) THEN set
                   ELSE Append(set, Head(items)),
                   Tail(items))

\* a right non-key column suffixed whenever the left table has a column of
\* its name, key or not
FinalColNameAnyLeft(left, leftKeys, col, suffixes) ==
    IF Includes(left.columns, col) THEN col \o suffixes[2] ELSE col

\* the name a right non-key column gets in the result
FinalColName(left, leftKeys, col, suffixes) ==
    IF Includes(left.columns, col) /\ ~Includes(leftKeys, col)
    THEN col \o suffixes[2]
    ELSE col

\* the columns of df that are not keys, in column order
NonKeys(df, keys) == SelectSeq(df.columns, LAMBDA c : ~Includes(keys, c))

\* resultColumns: the left key names, left's other columns, right's other
\* columns (suffixed)
ResultColumns(left, right, leftKeys, rightKeys, suffixes) ==
    LET rrest == NonKeys(right, rightKeys)
    IN leftKeys \o NonKeys(left, leftKeys)
         \o [i \in 1..Len(rrest) |->
                FinalColName(left, leftKeys, rrest[i], suffixes)]

\* the pushes one emitted row makes, in order, as <<result column, value>>;
\* li = 0 / ri = 0 stands for "no left row" / "no right row"
RowPushes(left, right, leftKeys, rightKeys, suffixes, li, ri) ==
    LET lrest == NonKeys(left, leftKeys)
        rrest == NonKeys(right, rightKeys)
    IN [i \in 1..Len(leftKeys) |->
           <<leftKeys[i], IF li # 0 THEN CellOr(left, leftKeys[i], li)
                          ELSE CellOr(right, rightKeys[i], ri)>>]
       \o [i \in 1..Len(lrest) |->
              <<lrest[i], IF li # 0 THEN CellOr(left, lrest[i], li) ELSE Null>>]
       \o [i \in 1..Len(rrest) |->
              <<FinalColName(left, leftKeys, rrest[i], suffixes),
                IF ri # 0 THEN CellOr(right, rrest[i], ri) ELSE Null>>]

\* resultData[col].push(value) for every push, in order
RECURSIVE PushAll(_, _)
PushAll(resultData, pushes) ==
    IF pushes = <<>> THEN resultData
    ELSE LET col == pushes[1][1]
         IN PushAll(MapSet(resultData, col,
                           Append(MapGet(resultData, col), pushes[1][2])),
                    Tail(pushes))

\* the rows one key emits, the right rows outermost
RowsForKeyRightMajor(how, leftIndices, rightIndices) ==
    LET nl == Len(leftIndices)
        nr == Len(rightIndices)
    IN IF how = "inner" /\ (nl = 0 \/ nr = 0) THEN <<>>
       ELSE IF nl = 0 THEN [i \in 1..nr |-> <<0, rightIndices[i]>>]
       ELSE IF nr = 0 THEN [i \in 1..nl |-> <<leftIndices[i], 0>>]
       ELSE [k \in 1..(nl * nr) |->
                <<leftIndices[((k - 1) % nl) + 1],
                  rightIndices[((k - 1) \div nl) + 1]>>]

\* the rows one key emits, as <<left position, right position>>
RowsForKey(how, leftIndices, rightIndices) ==
    LET nl == Len(leftIndices)
        nr == Len(rightIndices)
    IN IF how = "inner" /\ (nl = 0 \/ nr = 0) THEN <<>>
       ELSE IF nl = 0 THEN [i \in 1..nr |-> <<0, rightIndices[i]>>]
       ELSE IF nr = 0 THEN [i \in 1..nl |-> <<leftIndices[i], 0>>]
       ELSE [k \in 1..(nl * nr) |->
                <<leftIndices[((k - 1) \div nr) + 1],
                  rightIndices[((k - 1) % nr) + 1]>>]

\* the rows all keys emit, in the order the keys are visited
RECURSIVE EmittedRows(_, _, _, _)
EmittedRows(how, allKeys, leftKeyMap, rightKeyMap) ==
    IF allKeys = <<>> THEN <<>>
    ELSE LET key == Head(allKeys)
             li == IF MapHas(leftKeyMap, key) THEN MapGet(leftKeyMap, key)
                   ELSE <<>>
             ri == IF MapHas(rightKeyMap, key) THEN MapGet(rightKeyMap, key)
                   ELSE <<>>
         IN RowsForKey(how, li, ri)
              \o EmittedRows(how, Tail(allKeys), leftKeyMap, rightKeyMap)

\* the label of an emitted row
RowLabel(left, right, row) ==
    IF row[1] = 0 THEN right.index[row[2]]
    ELSE IF row[2] = 0 THEN left.index[row[1]]
    ELSE Str(ToStr(left.index[row[1]]) \o <<"_">> \o ToStr(right.index[row[2]]))

\* the first key of keys that is no column of df (0 when every key is one)
FirstMissingKey(df, keys) ==
    IF \E i \in 1..Len(keys) : ~Includes(df.columns, keys[i])
    THEN CHOOSE i \in 1..Len(keys) :
             /\ ~Includes(df.columns, keys[i])
             /\ \A j \in 1..(i - 1) : Includes(df.columns, keys[j])
    ELSE 0

\* the validation of the key options: an Error, or the two key lists
MergeKeys(left, right, options) ==
    IF options.on.given
    THEN LET keys == options.on.v
             bad == {i \in 1..Len(keys) :
                        \/ ~Includes(left.columns, keys[i])
                        \/ ~Includes(right.columns, keys[i])}
             i == CHOOSE k \in bad : \A j \in bad : k <= j
         IN IF bad = {} THEN [ok |-> TRUE, leftKeys |-> keys, rightKeys |-> keys]
            ELSE IF ~Includes(left.columns, keys[i])
                 THEN Error("ColumnNotFoundLeft", keys[i])
                 ELSE Error("ColumnNotFoundRight", keys[i])
    ELSE IF options.leftOn.given /\ options.rightOn.given
    THEN LET leftKeys == options.leftOn.v
             rightKeys == options.rightOn.v
         IN IF Len(leftKeys) # Len(rightKeys)
            THEN Error("KeyCountMismatch", <<>>)
            ELSE IF FirstMissingKey(left, leftKeys) # 0
            THEN Error("ColumnNotFoundLeft",
                       leftKeys[FirstMissingKey(left, leftKeys)])
            ELSE IF FirstMissingKey(right, rightKeys) # 0
            THEN Error("ColumnNotFoundRight",
                       rightKeys[FirstMissingKey(right, rightKeys)])
            ELSE [ok |-> TRUE, leftKeys |-> leftKeys, rightKeys |-> rightKeys]
    ELSE Error("NoKeys", <<>>)

\* BoxFrame.merge(left, right, options)
merge(left, right, options) ==
    LET mk == MergeKeys(left, right, options)
    IN IF ~mk.ok THEN mk
       ELSE
       LET how == options.how
           leftKeyMap == KeyMap(left, mk.leftKeys, Length(left))
           rightKeyMap == KeyMap(right, mk.rightKeys, Length(right))
           fromLeft == IF how \in {"inner", "left", "outer"}
                       THEN MapKeys(leftKeyMap) ELSE <<>>
           fromRight == IF how \in {"inner", "right", "outer"}
                        THEN MapKeys(rightKeyMap) ELSE <<>>
           allKeys == SetAddAll(SetAddAll(<<>>, fromLeft), fromRight)
           resultColumns == ResultColumns(left, right, mk.leftKeys,
                                          mk.rightKeys, options.suffixes)
           emptyData == MapOf([i \in 1..Len(resultColumns) |->
                                  <<resultColumns[i], <<>>>>])
           rows == EmittedRows(how, allKeys, leftKeyMap, rightKeyMap)
           pushes == [r \in 1..Len(rows) |->
                         RowPushes(left, right, mk.leftKeys, mk.rightKeys,
                                   options.suffixes, rows[r][1], rows[r][2])]
           resultData == PushAll(emptyData, Join(pushes, <<>>))
           resultIndex == [r \in 1..Len(rows) |-> RowLabel(left, right, rows[r])]
       IN DataFrame(ObjectEntries(resultData), Given(resultColumns),
                    Given(resultIndex))

----------------------------------------------------------------------------
(* The merge specification: a caller holding two DataFrames and a merge    *)
(* option object calls BoxFrame.merge.                                     *)

\* rows of each table handed to merge
MergeMaxRows == 2

ColK == <<"k">>
ColJ == <<"j">>
ColV == <<"v">>
ColW == <<"w">>
ColId == <<"i", "d">>
ColRid == <<"r", "i", "d">>
ColVy == <<"v", "_", "y">>

DefaultSuffixes == << <<"_", "x">>, <<"_", "y">> >>

Hows == {"inner", "left", "right", "outer"}

\* every sequence over S of at most n elements
SeqsUpTo(S, n) == UNION {[1..k -> S] : k \in 0..n}

\* the values 1.., offset by base: a payload column that tells the rows apart
Payload(n, base) == [i \in 1..n |-> Num(base + i)]

Frame(pairs) == DataFrame(MapOf(pairs), Absent, Absent)

MergeOn(keys, how) ==
    [how |-> how, on |-> Given(keys), leftOn |-> Absent, rightOn |-> Absent,
     suffixes |-> DefaultSuffixes]

MergeLeftRight(leftKeys, rightKeys, how) ==
    [how |-> how, on |-> Absent, leftOn |-> Given(leftKeys),
     rightOn |-> Given(rightKeys), suffixes |-> DefaultSuffixes]

\* key values that stringify alike: 1 and "1", Missing and "__NULL__"
TypedKeyValues == {Num(1), Str(<<"1">>), Null, Str(NullKey)}

\* one key column k, payloads v (left) and w (right)
TypedKeyCases(rows) ==
    {[left |-> Frame(<< <<ColK, ks>>, <<ColV, Payload(Len(ks), 0)>> >>),
      right |-> Frame(<< <<ColK, kr>>, <<ColW, Payload(Len(kr), 10)>> >>),
      options |-> MergeOn(<<ColK>>, how)] :
        ks \in SeqsUpTo(TypedKeyValues, rows),
        kr \in SeqsUpTo(TypedKeyValues, rows),
        how \in Hows}

\* two-column keys that differ in where the "|" falls
BarPairs == {<<Str(<<"a", "|", "b">>), Str(<<"c">>)>>,
             <<Str(<<"a">>), Str(<<"b", "|", "c">>)>>}

TwoKeyFrame(rows, base) ==
    Frame(<< <<ColK, [i \in 1..Len(rows) |-> rows[i][1]]>>,
             <<ColJ, [i \in 1..Len(rows) |-> rows[i][2]]>>,
             <<ColV, Payload(Len(rows), base)>> >>)

TwoKeyCases(rows) ==
    {[left |-> TwoKeyFrame(rl, 0), right |-> TwoKeyFrame(rr, 10),
      options |-> MergeOn(<<ColK, ColJ>>, how)] :
        rl \in SeqsUpTo(BarPairs, rows),
        rr \in SeqsUpTo(BarPairs, rows),
        how \in Hows}

IdValues == {Num(1), Num(2)}

\* leftOn = id, rightOn = rid, and the right table has a non-key column id
CrossNameCases(rows) ==
    {[left |-> Frame(<< <<ColId, kl>>, <<ColV, Payload(Len(kl), 0)>> >>),
      right |-> Frame(<< <<ColRid, kr>>, <<ColId, Payload(Len(kr), 10)>> >>),
      options |-> MergeLeftRight(<<ColId>>, <<ColRid>>, how)] :
        kl \in SeqsUpTo(IdValues, rows),
        kr \in SeqsUpTo(IdValues, rows),
        how \in Hows}

\* the right column v is suffixed to v_y, which the left table already has
SuffixClashCases(rows) ==
    {[left |-> Frame(<< <<ColK, kl>>, <<ColV, Payload(Len(kl), 0)>>,
                        <<ColVy, Payload(Len(kl), 20)>> >>),
      right |-> Frame(<< <<ColK, kr>>, <<ColV, Payload(Len(kr), 10)>> >>),
      options |-> MergeOn(<<ColK>>, how)] :
        kl \in SeqsUpTo(IdValues, rows),
        kr \in SeqsUpTo(IdValues, rows),
        how \in Hows}

\* leftOn = id, rightOn = rid, and no other column shares a name
RenamedKeyCases(rows) ==
    {[left |-> Frame(<< <<ColId, kl>>, <<ColV, Payload(Len(kl), 0)>> >>),
      right |-> Frame(<< <<ColRid, kr>>, <<ColW, Payload(Len(kr), 10)>> >>),
      options |-> MergeLeftRight(<<ColId>>, <<ColRid>>, how)] :
        kl \in SeqsUpTo(IdValues, rows),
        kr \in SeqsUpTo(IdValues, rows),
        how \in Hows}

\* the right columns v and w against the left columns v and j, under the
\* default suffixes and under the suffixes _l, _r
SuffixCases(rows) ==
    {[left |-> Frame(<< <<ColV, Payload(Len(kl), 0)>>, <<ColK, kl>>,
                        <<ColJ, Payload(Len(kl), 20)>> >>),
      right |-> Frame(<< <<ColW, Payload(Len(kr), 30)>>, <<ColK, kr>>,
                         <<ColV, Payload(Len(kr), 10)>> >>),
      options |-> [how |-> how, on |-> Given(<<ColK>>), leftOn |-> Absent,
                   rightOn |-> Absent, suffixes |-> sx]] :
        kl \in SeqsUpTo(IdValues, rows),
        kr \in SeqsUpTo(IdValues, rows),
        how \in Hows,
        sx \in {DefaultSuffixes, << <<"_", "l">>, <<"_", "r">> >>}}

\* the key options a caller may pass: none, one of leftOn / rightOn, lists
\* of different lengths, names absent from a side, and valid ones
KeyOptions ==
    {[on |-> Absent, leftOn |-> l, rightOn |-> r] :
        l \in {Absent, Given(<<ColK>>), Given(<<ColV>>), Given(<<ColW>>),
                Given(<<ColK, ColV>>)},
        r \in {Absent, Given(<<ColK>>), Given(<<ColV>>), Given(<<ColW>>),
                Given(<<ColK, ColW>>)}}
        \cup {[on |-> Given(o), leftOn |-> Absent, rightOn |-> Absent] :
                 o \in {<<ColK>>, <<ColV>>, <<ColW>>, <<ColJ>>,
                         <<ColK, ColJ>>}}

\* left {k, v} and right {k, w} under every key option
KeyOptionCases(rows) ==
    {[left |-> Frame(<< <<ColK, kl>>, <<ColV, Payload(Len(kl), 0)>> >>),
      right |-> Frame(<< <<ColK, kr>>, <<ColW, Payload(Len(kr), 0)>> >>),
      options |-> [how |-> how, on |-> o.on, leftOn |-> o.leftOn,
                   rightOn |-> o.rightOn, suffixes |-> DefaultSuffixes]] :
        kl \in SeqsUpTo(IdValues, rows),
        kr \in SeqsUpTo(IdValues, rows),
        how \in {"inner", "outer"},
        o \in KeyOptions}

\* keys that are null, undefined or a number
MissingKeyValues == {Null, Undef, Num(1)}

MissingKeyCases(rows) ==
    {[left |-> Frame(<< <<ColK, kl>>, <<ColV, Payload(Len(kl), 0)>> >>),
      right |-> Frame(<< <<ColK, kr>>, <<ColW, Payload(Len(kr), 10)>> >>),
      options |-> MergeOn(<<ColK>>, how)] :
        kl \in SeqsUpTo(MissingKeyValues, rows),
        kr \in SeqsUpTo(MissingKeyValues, rows),
        how \in Hows}

\* the call is one of a family of cases
MergeCases(call, rows) ==
    \/ call \in TypedKeyCases(rows)
    \/ call \in TwoKeyCases(rows)
    \/ call \in CrossNameCases(rows)
    \/ call \in SuffixClashCases(rows)
    \/ call \in RenamedKeyCases(rows)
    \/ call \in SuffixCases(rows)
    \/ call \in KeyOptionCases(rows)
    \/ call \in MissingKeyCases(rows)

MergeInit ==
    /\ op = "init"
    /\ MergeCases(inp, MergeMaxRows)
    /\ res = Error("", <<>>)
    /\ wasmEnabled = FALSE
    /\ heap = IdleHeap
    /\ tables = <<>>
    /\ objs = <<>>
    /\ engine = IdleEngine

Merge ==
    /\ op' = "merge"
    /\ res' = merge(inp.left, inp.right, inp.options)
    /\ UNCHANGED <<inp, wasmEnabled, heap, tables, objs, engine>>

MergeNext == Merge

SpecMerge == MergeInit /\ [][MergeNext]_vars

\* the key lists of a valid merge call
LeftKeysOf(options) ==
    IF options.on.given THEN options.on.v ELSE options.leftOn.v

RightKeysOf(options) ==
    IF options.on.given THEN options.on.v ELSE options.rightOn.v

\* equality of two key values as typed values (Missing equals Missing)
TypedEq(a, b) == (IsNullish(a) /\ IsNullish(b)) \/ a = b

\* the label merge gives to the row pairing left row li with right row ri
PairLabel(li, ri) == RowLabel(inp.left, inp.right, <<li, ri>>)

\* C8: merge pairs a left row with a right row only when their key values
\* are equal column by column as typed values: 1 and "1", Missing and
\* "__NULL__", and ("a|b","c") and ("a","b|c") are never paired.
PairedRowsHaveEqualTypedKeys ==
    (op = "merge" /\ res.ok) =>
        \A li \in 1..Length(inp.left) : \A ri \in 1..Length(inp.right) :
            Includes(res.index, PairLabel(li, ri)) =>
                \A c \in 1..Len(LeftKeysOf(inp.options)) :
                    TypedEq(CellOr(inp.left, LeftKeysOf(inp.options)[c], li),
                            CellOr(inp.right, RightKeysOf(inp.options)[c], ri))

\* every named key column is present on its side
ValidMergeSpec ==
    /\ inp.options.on.given
         \/ (inp.options.leftOn.given /\ inp.options.rightOn.given)
    /\ Len(LeftKeysOf(inp.options)) = Len(RightKeysOf(inp.options))
    /\ \A c \in 1..Len(LeftKeysOf(inp.options)) :
           /\ Includes(inp.left.columns, LeftKeysOf(inp.options)[c])
           /\ Includes(inp.right.columns, RightKeysOf(inp.options)[c])

\* C10: a merge with a valid merge spec succeeds, its result's column names
\* are pairwise distinct, and every column holds one value per result row.
MergeResultColumnsDistinctAndFull ==
    (op = "merge" /\ ValidMergeSpec) =>
        /\ res.ok
        /\ \A i \in 1..Len(res.columns) : \A j \in 1..Len(res.columns) :
               res.columns[i] = res.columns[j] => i = j
        /\ \A i \in 1..Len(res.columns) :
               /\ MapHas(res.data, res.columns[i])
               /\ Len(MapGet(res.data, res.columns[i]).values) = Len(res.index)

\* the cells of the key columns of both tables
KeyCells ==
    {CellOr(inp.left, LeftKeysOf(inp.options)[c], i) :
        c \in 1..Len(LeftKeysOf(inp.options)), i \in 1..Length(inp.left)}
    \cup {CellOr(inp.right, RightKeysOf(inp.options)[c], i) :
             c \in 1..Len(RightKeysOf(inp.options)), i \in 1..Length(inp.right)}

\* every key cell is a non-missing value of one scalar type
KeysOneScalarType ==
    \E ty \in {"num", "str", "bool"} : \A v \in KeyCells : v.t = ty

\* left row li and right row ri have equal keys, column by column
KeysMatch(li, ri) ==
    \A c \in 1..Len(LeftKeysOf(inp.options)) :
        TypedEq(CellOr(inp.left, LeftKeysOf(inp.options)[c], li),
                CellOr(inp.right, RightKeysOf(inp.options)[c], ri))

MatchingPairs ==
    {p \in (1..Length(inp.left)) \X (1..Length(inp.right)) :
        KeysMatch(p[1], p[2])}

\* how often x occurs in seq
Occurrences(seq, x) == Cardinality({i \in 1..Len(seq) : seq[i] = x})

\* C11: an inner merge over key columns of non-missing values of one scalar
\* type returns one row for every pair of a left and a right row with equal
\* keys and no other row: Sum over keys of leftCount * rightCount rows.
InnerJoinCardinality ==
    (op = "merge" /\ res.ok /\ inp.options.how = "inner" /\ KeysOneScalarType)
        => /\ Len(res.index) = Cardinality(MatchingPairs)
           /\ \A p \in MatchingPairs :
                  Occurrences(res.index, PairLabel(p[1], p[2])) = 1

\* the value of result column col in result row r
ResultCell(col, r) == MapGet(res.data, col).values[r]

\* result row r carries left row li in every column of the left table
LeftPart(r, li) ==
    \A c \in 1..Len(inp.left.columns) :
        ResultCell(inp.left.columns[c], r)
            = CellOr(inp.left, inp.left.columns[c], li)

\* result row r carries right row ri in the right table's non-key columns
RightPart(r, ri) ==
    LET rrest == NonKeys(inp.right, RightKeysOf(inp.options))
    IN \A c \in 1..Len(rrest) :
           ResultCell(FinalColName(inp.left, LeftKeysOf(inp.options),
                                   rrest[c], inp.options.suffixes), r)
               = CellOr(inp.right, rrest[c], ri)

\* result row r carries the key values of right row ri in the key columns
RightKeyPart(r, ri) ==
    \A c \in 1..Len(LeftKeysOf(inp.options)) :
        ResultCell(LeftKeysOf(inp.options)[c], r)
            = CellOr(inp.right, RightKeysOf(inp.options)[c], ri)

\* result row r is Missing in the left table's non-key columns
LeftMissing(r) ==
    LET lrest == NonKeys(inp.left, LeftKeysOf(inp.options))
    IN \A c \in 1..Len(lrest) : IsNullish(ResultCell(lrest[c], r))

\* result row r is Missing in the right table's non-key columns
RightMissing(r) ==
    LET rrest == NonKeys(inp.right, RightKeysOf(inp.options))
    IN \A c \in 1..Len(rrest) :
           IsNullish(ResultCell(FinalColName(inp.left, LeftKeysOf(inp.options),
                                             rrest[c], inp.options.suffixes),
                                r))

ResultRows == 1..Len(res.index)

\* the result rows that pair left row li with right row ri
PairRows(li, ri) == {r \in ResultRows : LeftPart(r, li) /\ RightPart(r, ri)}

\* the result rows that carry left row li and nothing of the right table
LeftOnlyRows(li) == {r \in ResultRows : LeftPart(r, li) /\ RightMissing(r)}

\* the result rows that carry right row ri and nothing of the left table
RightOnlyRows(ri) ==
    {r \in ResultRows :
        RightKeyPart(r, ri) /\ RightPart(r, ri) /\ LeftMissing(r)}

\* C12: for how in {left, right, outer} every row of a preserved side
\* appears once per matching row of the other side, or exactly once with the
\* other side's non-key columns Missing when no row matches (a right-only
\* row with the right table's key values); no unmatched row of a side that
\* is not preserved appears.
PreservedRowsAppear ==
    (op = "merge" /\ res.ok /\ inp.options.how \in {"left", "right", "outer"})
        =>
        LET how == inp.options.how
            L == 1..Length(inp.left)
            R == 1..Length(inp.right)
        IN /\ how \in {"left", "outer"} =>
                  \A li \in L :
                      IF \E ri \in R : KeysMatch(li, ri)
                      THEN /\ \A ri \in R : KeysMatch(li, ri) =>
                                  Cardinality(PairRows(li, ri)) = 1
                           /\ LeftOnlyRows(li) = {}
                      ELSE Cardinality(LeftOnlyRows(li)) = 1
           /\ how \in {"right", "outer"} =>
                  \A ri \in R :
                      IF \E li \in L : KeysMatch(li, ri)
                      THEN /\ \A li \in L : KeysMatch(li, ri) =>
                                  Cardinality(PairRows(li, ri)) = 1
                           /\ RightOnlyRows(ri) = {}
                      ELSE Cardinality(RightOnlyRows(ri)) = 1
           /\ how = "left" => \A ri \in R : RightOnlyRows(ri) = {}
           /\ how = "right" => \A li \in L : LeftOnlyRows(li) = {}

\* the columns of a table outside a key list, in column order
OtherColumns(columns, keys) ==
    SelectSeq(columns, LAMBDA c : \A k \in 1..Len(keys) : keys[k] # c)

\* a right non-key column as the claim names it in the result: suffixes[1]
\* appended exactly when a left non-key column has the same name
RightNameInResult(col) ==
    IF \E i \in 1..Len(OtherColumns(inp.left.columns, LeftKeysOf(inp.options))) :
           OtherColumns(inp.left.columns, LeftKeysOf(inp.options))[i] = col
    THEN col \o inp.options.suffixes[2]
    ELSE col

MergeFailsOnlyOnInvalidSpec ==
    op = "merge" =>
        /\ res.ok = ValidMergeSpec
        /\ ~res.ok =>
               res.err \in {"NoKeys", "KeyCountMismatch", "ColumnNotFoundLeft",
                            "ColumnNotFoundRight"}

\* the key values of left row li / right row ri
LeftKeyValues(li) == KeyValuesOf(inp.left, LeftKeysOf(inp.options), li)

RightKeyValues(ri) == KeyValuesOf(inp.right, RightKeysOf(inp.options), ri)

\* two lists of key values are equal column by column as typed values
SameKey(x, y) == \A c \in 1..Len(x) : TypedEq(x[c], y[c])

\* the key values of every row of both tables
AllKeyValues ==
    {LeftKeyValues(i) : i \in 1..Length(inp.left)}
        \cup {RightKeyValues(i) : i \in 1..Length(inp.right)}

\* no two different keys of the call have one key string
KeyStringsDistinct ==
    \A x \in AllKeyValues : \A y \in AllKeyValues :
        createKey(x) = createKey(y) => SameKey(x, y)

\* result row r was built from left row s[1] and right row s[2]; 0 stands
\* for "no row of that side"
BuiltFrom(r, s) ==
    IF s[1] # 0 /\ s[2] # 0
    THEN LeftPart(r, s[1]) /\ RightPart(r, s[2]) /\ KeysMatch(s[1], s[2])
    ELSE IF s[1] # 0 THEN LeftPart(r, s[1]) /\ RightMissing(r)
    ELSE IF s[2] # 0
    THEN RightKeyPart(r, s[2]) /\ RightPart(r, s[2]) /\ LeftMissing(r)
    ELSE FALSE

SourcePairs == (0..Length(inp.left)) \X (0..Length(inp.right))

\* each table has a column that is no key, so that a result row shows
\* which side it lacks
BothSidesHaveOtherColumns ==
    /\ NonKeys(inp.left, LeftKeysOf(inp.options)) # <<>>
    /\ NonKeys(inp.right, RightKeysOf(inp.options)) # <<>>

\* the first left / right row that has the key of left row li / right row ri
FirstLeftWithKey(li) ==
    CHOOSE i \in 1..li :
        /\ SameKey(LeftKeyValues(i), LeftKeyValues(li))
        /\ \A j \in 1..(i - 1) : ~SameKey(LeftKeyValues(j), LeftKeyValues(li))

FirstRightWithKey(ri) ==
    CHOOSE i \in 1..ri :
        /\ SameKey(RightKeyValues(i), RightKeyValues(ri))
        /\ \A j \in 1..(i - 1) : ~SameKey(RightKeyValues(j), RightKeyValues(ri))

\* the place of the key of source pair s in the order the keys are visited
KeyRank(s) ==
    IF inp.options.how = "right" THEN FirstRightWithKey(s[2])
    ELSE IF s[1] # 0 THEN FirstLeftWithKey(s[1])
    ELSE Length(inp.left) + FirstRightWithKey(s[2])

\* source pair s comes before source pair t: by key, then left position,
\* then right position
EmittedBefore(s, t) ==
    \/ KeyRank(s) < KeyRank(t)
    \/ KeyRank(s) = KeyRank(t) /\ s[1] < t[1]
    \/ KeyRank(s) = KeyRank(t) /\ s[1] = t[1] /\ s[2] < t[2]

LeftKeyMissing(li) ==
    \A c \in 1..Len(LeftKeysOf(inp.options)) : IsNullish(LeftKeyValues(li)[c])

RightKeyMissing(ri) ==
    \A c \in 1..Len(RightKeysOf(inp.options)) : IsNullish(RightKeyValues(ri)[c])

\* the pairs of a left and a right row whose keys are both Missing
MissingKeyPairs ==
    {s \in (1..Length(inp.left)) \X (1..Length(inp.right)) :
        LeftKeyMissing(s[1]) /\ RightKeyMissing(s[2])}

\* C30: in every join type a left row whose key is Missing is matched with
\* every right row whose key is Missing, null and undefined alike: the result
\* has one row pairing the two, and neither row appears as an unmatched row.
MissingKeysMatch ==
    (op = "merge" /\ MergeKeys(inp.left, inp.right, inp.options).ok
        /\ BothSidesHaveOtherColumns)
        => \A s \in MissingKeyPairs :
               /\ res.ok
               /\ Cardinality({r \in ResultRows : BuiltFrom(r, s)}) = 1
               /\ LeftOnlyRows(s[1]) = {}
               /\ RightOnlyRows(s[2]) = {}

\* a left row with the key null was paired with a right row with the key
\* undefined
NullPairedWithUndefined ==
    /\ op = "merge" /\ res.ok /\ BothSidesHaveOtherColumns
    /\ \E s \in MissingKeyPairs :
           /\ LeftKeyValues(s[1]) = <<Null>>
           /\ RightKeyValues(s[2]) = <<Undef>>
           /\ \E r \in ResultRows : BuiltFrom(r, s)

----------------------------------------------------------------------------
(* Selection, transformation and cleaning operations of DataFrame, and      *)
(* BoxFrame.concat, as functions from tables to a table or an Error.        *)

\* the first name of names that has no stored column (0 when all have one)
FirstUnstored(df, names) ==
    IF \E i \in 1..Len(names) : ~MapHas(df.data, names[i])
    THEN CHOOSE i \in 1..Len(names) :
             /\ ~MapHas(df.data, names[i])
             /\ \A j \in 1..(i - 1) : MapHas(df.data, names[j])
    ELSE 0

\* the stored values of the named columns, as Map entries
PickColumns(df, names) ==
    MapOf([i \in 1..Len(names) |-> <<names[i], MapGet(df.data, names[i]).values>>])

\* getColumns(columnNames)
getColumns(df, columnNames) ==
    IF FirstUnstored(df, columnNames) # 0
    THEN Error("ColumnNotFound", columnNames[FirstUnstored(df, columnNames)])
    ELSE DataFrame(PickColumns(df, columnNames), Absent, Given(df.index))

\* the first position of a label in an index (0 when it does not occur)
PositionOf(index, label) ==
    IF Includes(index, label)
    THEN CHOOSE i \in 1..Len(index) :
             index[i] = label /\ \A j \in 1..(i - 1) : index[j] # label
    ELSE 0

\* Series.loc(labels): the values at the labels' positions
SeriesLoc(series, index, labels) ==
    [i \in 1..Len(labels) |-> series.values[PositionOf(index, labels[i])]]

\* loc(rowLabels, columnLabels)
loc(df, rowLabels, columnLabels) ==
    LET targetColumns == IF columnLabels.given THEN columnLabels.v ELSE df.columns
    IN IF FirstUnstored(df, targetColumns) # 0
       THEN Error("ColumnNotFound", targetColumns[FirstUnstored(df, targetColumns)])
       ELSE IF \E i \in 1..Len(rowLabels) : ~Includes(df.index, rowLabels[i])
       THEN Error("LabelNotFound", <<>>)
       ELSE DataFrame(
                MapOf([i \in 1..Len(targetColumns) |->
                          <<targetColumns[i],
                            SeriesLoc(MapGet(df.data, targetColumns[i]),
                                      df.index, rowLabels)>>]),
                Given(targetColumns), Given(rowLabels))

\* iloc(rowPositions, columnPositions): positions are 1-based here
iloc(df, rowPositions, columnPositions) ==
    LET targetColumns ==
            IF columnPositions.given
            THEN [i \in 1..Len(columnPositions.v) |-> df.columns[columnPositions.v[i]]]
            ELSE df.columns
    IN IF FirstUnstored(df, targetColumns) # 0
       THEN Error("ColumnNotFound", targetColumns[FirstUnstored(df, targetColumns)])
       ELSE DataFrame(
                MapOf([i \in 1..Len(targetColumns) |->
                          <<targetColumns[i],
                            [r \in 1..Len(rowPositions) |->
                                MapGet(df.data, targetColumns[i]).values[rowPositions[r]]]>>]),
                Given(targetColumns),
                Given([r \in 1..Len(rowPositions) |-> df.index[rowPositions[r]]]))

\* dropColumns(columns)
dropColumns(df, columns) ==
    LET newColumns == SelectSeq(df.columns, LAMBDA c : ~Includes(columns, c))
    IN IF FirstUnstored(df, newColumns) # 0
       THEN Error("TypeError", newColumns[FirstUnstored(df, newColumns)])
       ELSE DataFrame(PickColumns(df, newColumns), Given(newColumns), Given(df.index))

\* dropRows(labels)
dropRows(df, labels) ==
    filter(df, [i \in 1..Len(df.index) |-> ~Includes(labels, df.index[i])])

\* drop(positions): positions are 1-based here
drop(df, positions) ==
    filter(df, [i \in 1..Len(df.index) |-> ~Includes(positions, i)])

\* rename(columns): columns maps old names to new names
rename(df, columns) ==
    LET newName(old) == IF MapHas(columns, old) /\ MapGet(columns, old) # <<>>
                        THEN MapGet(columns, old) ELSE old
        newColumns == [i \in 1..Len(df.columns) |-> newName(df.columns[i])]
    IN IF FirstUnstored(df, df.columns) # 0
       THEN Error("TypeError", df.columns[FirstUnstored(df, df.columns)])
       ELSE DataFrame(
                MapOf([i \in 1..Len(df.columns) |->
                          <<newColumns[i], MapGet(df.data, df.columns[i]).values>>]),
                Given(newColumns), Given(df.index))

\* One entry of the argument of assign: <<name, assignment>>, in the order
\* of Object.entries(assignments).  An array assignment is
\* [fn |-> FALSE, values |-> array]; a function assignment is
\* [fn |-> TRUE, of |-> c], the row function (row) => row[c], or, with
\* count set, the function (row) => ++calls that returns how often it has
\* been called.
ArrayAssignment(values) ==
    [fn |-> FALSE, values |-> values, of |-> <<>>, count |-> FALSE]
RowFunction(c) == [fn |-> TRUE, values |-> <<>>, of |-> c, count |-> FALSE]
CountingFunction == [fn |-> TRUE, values |-> <<>>, of |-> <<>>, count |-> TRUE]

\* row[c] for the row at position i (undefined when no column is named c)
RowValue(df, c, i) ==
    IF MapHas(df.data, c) THEN MapGet(df.data, c).values[i] ELSE Undef

\* this.index.map((_, i) => assignment(row)) over the first n rows: one call
\* per row, in index order
RECURSIVE InvokeForRows(_, _, _)
InvokeForRows(df, assignment, n) ==
    IF n = 0 THEN <<>>
    ELSE LET done == InvokeForRows(df, assignment, n - 1)
         IN Append(done, IF assignment.count THEN Num(Len(done) + 1)
                         ELSE RowValue(df, assignment.of, n))

\* the entries of assignments applied in order, every row function reading
\* the columns as assigned so far
RECURSIVE AssignAllSeeingEarlier(_, _, _)
AssignAllSeeingEarlier(df, newData, assignments) ==
    IF assignments = <<>> THEN [ok |-> TRUE, data |-> newData]
    ELSE LET colName == assignments[1][1]
             assignment == assignments[1][2]
             seen == [df EXCEPT !.data =
                         [k \in 1..Len(newData) |->
                             <<newData[k][1], [values |-> newData[k][2]]>>]]
         IN IF assignment.fn
            THEN AssignAllSeeingEarlier(
                     df,
                     MapSet(newData, colName,
                            InvokeForRows(seen, assignment, Len(df.index))),
                     Tail(assignments))
            ELSE IF Len(assignment.values) # Length(df)
            THEN Error("LengthMismatch", colName)
            ELSE AssignAllSeeingEarlier(
                     df, MapSet(newData, colName, assignment.values),
                     Tail(assignments))

\* the entries of assignments applied in order to newData
RECURSIVE AssignAll(_, _, _)
AssignAll(df, newData, assignments) ==
    IF assignments = <<>> THEN [ok |-> TRUE, data |-> newData]
    ELSE LET colName == assignments[1][1]
             assignment == assignments[1][2]
         IN IF assignment.fn
            THEN AssignAll(df,
                           MapSet(newData, colName,
                                  InvokeForRows(df, assignment, Len(df.index))),
                           Tail(assignments))
            ELSE IF Len(assignment.values) # Length(df)
            THEN Error("LengthMismatch", colName)
            ELSE AssignAll(df, MapSet(newData, colName, assignment.values),
                           Tail(assignments))

\* assign(assignments)
assign(df, assignments) ==
    LET newData == AssignAll(df, ValuesMap(df), assignments)
    IN IF ~newData.ok THEN newData
       ELSE DataFrame(newData.data, Given(MapKeys(newData.data)), Given(df.index))

\* values[i] of a column read through columnValues (undefined when the
\* column is not stored, or stores fewer values)
ValueOrUndef(df, col, i) ==
    IF MapHas(df.data, col) /\ i <= Len(MapGet(df.data, col).values)
    THEN MapGet(df.data, col).values[i] ELSE Undef

\* the key dropDuplicates builds for row i
DuplicateKey(df, targetColumns, i) ==
    Join([c \in 1..Len(targetColumns) |->
             ToStr(ValueOrUndef(df, targetColumns[c], i))],
         <<"|">>)

\* dropDuplicates(subset)
dropDuplicates(df, subset) ==
    LET targetColumns == IF subset.given THEN subset.v ELSE df.columns
        key(i) == DuplicateKey(df, targetColumns, i)
    IN filter(df, [i \in 1..Length(df) |->
                      \A j \in 1..(i - 1) : key(j) # key(i)])

\* dropna(axis)
dropna(df, axis) ==
    IF axis = "rows"
    THEN filter(df, [i \in 1..Length(df) |->
                        \A c \in 1..Len(df.columns) :
                            ~IsNullish(ValueOrUndef(df, df.columns[c], i))])
    ELSE getColumns(df,
             SelectSeq(df.columns,
                       LAMBDA col :
                           /\ MapHas(df.data, col)
                           /\ \A i \in 1..Len(MapGet(df.data, col).values) :
                                  ~IsNullish(MapGet(df.data, col).values[i])))

\* Series.fillna(value): every Missing value replaced
SeriesFillna(series, value) ==
    [i \in 1..Len(series.values) |->
        IF IsNullish(series.values[i]) THEN value ELSE series.values[i]]

\* fillna(value) with a scalar value
fillna(df, value) ==
    DataFrame([c \in 1..Len(df.data) |->
                  <<df.data[c][1], SeriesFillna(df.data[c][2], value)>>],
              Given(df.columns), Given(df.index))

\* resetIndex()
resetIndex(df) ==
    DataFrame(ValuesMap(df), Given(df.columns), Given(Range(Length(df))))

\* new Array(n).fill(null)
Nulls(n) == [i \in 1..n |-> Null]

\* concat along axis 0: the columns of all frames in first-seen order, the
\* rows of each frame in turn
RECURSIVE AllColumns(_)
AllColumns(dataFrames) ==
    IF dataFrames = <<>> THEN <<>>
    ELSE LET n == Len(dataFrames)
         IN SetAddAll(AllColumns(SubSeq(dataFrames, 1, n - 1)),
                      dataFrames[n].columns)

concatRows(dataFrames, ignore_index) ==
    LET allColumns == AllColumns(dataFrames)
        column(col) ==
            Join([d \in 1..Len(dataFrames) |->
                     IF MapHas(dataFrames[d].data, col)
                     THEN MapGet(dataFrames[d].data, col).values
                     ELSE Nulls(Length(dataFrames[d]))],
                 <<>>)
        resultIndex == Join([d \in 1..Len(dataFrames) |-> dataFrames[d].index],
                            <<>>)
    IN DataFrame(ObjectEntries(MapOf([i \in 1..Len(allColumns) |->
                                         <<allColumns[i],
                                           column(allColumns[i])>>])),
                 Absent,
                 Given(IF ignore_index THEN Range(Len(resultIndex))
                       ELSE resultIndex))

\* concat along axis 1: <<resultColumns, resultData>> after the stored
\* columns listed in entries (<<colName, values>> in visiting order)
RECURSIVE ConcatColumns(_, _, _)
ConcatColumns(entries, resultColumns, resultData) ==
    IF entries = <<>> THEN <<resultColumns, resultData>>
    ELSE LET colName == entries[1][1]
             newColName == IF Includes(resultColumns, colName)
                           THEN colName \o <<"_">>
                                    \o NatToStr(Len(resultColumns))
                           ELSE colName
         IN ConcatColumns(Tail(entries), Append(resultColumns, newColName),
                          MapSet(resultData, newColName, entries[1][2]))

\* BoxFrame.concat(dataFrames, axis, { ignore_index })
concat(dataFrames, axis, ignore_index) ==
    IF dataFrames = <<>> THEN Error("NoDataFrames", <<>>)
    ELSE IF axis # 0 /\ axis # 1 THEN Error("BadAxis", <<>>)
    ELSE IF axis = 0 THEN concatRows(dataFrames, ignore_index)
    ELSE LET entries == Join([d \in 1..Len(dataFrames) |->
                                 ValuesMap(dataFrames[d])], <<>>)
             result == ConcatColumns(entries, <<>>, <<>>)
         IN DataFrame(ObjectEntries(result[2]), Given(result[1]),
                      Given(dataFrames[1].index))

----------------------------------------------------------------------------
(* The concat specification: a caller holding one or two tables calls      *)
(* BoxFrame.concat on them.                                                 *)

\* rows of a table handed to concat
ConcatMaxRows == 2

ColA1 == <<"a", "_", "1">>
ColA2 == <<"a", "_", "2">>
Col1 == <<"1">>

\* the column lists of a table handed to concat: one or two distinct names
ConcatNames ==
    LET names == {ColA, ColB, ColA1, ColA2, Col1}
    IN {<<c>> : c \in names}
        \cup {p \in names \X names : p[1] # p[2]}

\* the d-th table handed to concat: every value tells its table, column and
\* row; default Labels
ConcatFrame(d, names, n) ==
    DataFrame([j \in 1..Len(names) |->
                  <<names[j], [i \in 1..n |-> Num(100 * d + 10 * j + i)]>>],
              Absent, Absent)

ConcatInputs(rows) ==
    {<<ConcatFrame(1, c, n)>> : c \in ConcatNames, n \in 1..rows}
        \cup {<<ConcatFrame(1, c, n), ConcatFrame(2, e, k)>> :
                 c \in ConcatNames, e \in ConcatNames,
                 n \in 1..rows, k \in 1..rows}

ConcatInit ==
    /\ op = "init"
    /\ inp \in {[dataFrames |-> f, axis |-> x, ignore_index |-> g] :
                   f \in ConcatInputs(ConcatMaxRows), x \in {0, 1},
                   g \in BOOLEAN}
    /\ res = Error("", <<>>)
    /\ wasmEnabled = FALSE
    /\ heap = IdleHeap
    /\ tables = <<>>
    /\ objs = <<>>
    /\ engine = IdleEngine

\* BoxFrame.concat(dataFrames, axis, { ignore_index })
Concat ==
    /\ res' = concat(inp.dataFrames, inp.axis, inp.ignore_index)
    /\ op' = "concat"
    /\ UNCHANGED <<inp, wasmEnabled, heap, tables, objs, engine>>

ConcatNext == Concat

SpecConcat == ConcatInit /\ [][ConcatNext]_vars

\* the columns of the tables handed to concat, as <<table, position>>
InputColumns ==
    {<<d, j>> : d \in 1..Len(inp.dataFrames), j \in 1..2}
        \ {<<d, 2>> : d \in {e \in 1..Len(inp.dataFrames) :
                                Len(inp.dataFrames[e].columns) < 2}}

EqualRowCounts ==
    \A d \in 1..Len(inp.dataFrames) :
        Length(inp.dataFrames[d]) = Length(inp.dataFrames[1])

\* C18: concat along axis 1 of tables with equal row counts returns a table
\* with as many columns as the inputs have in total, under pairwise distinct
\* names, each with a stored Column, and the values of every input column
\* are the values of a column of the result.
ConcatColumnsDistinct ==
    (op = "concat" /\ inp.axis = 1 /\ EqualRowCounts) =>
        /\ res.ok
        /\ Len(res.columns) = Cardinality(InputColumns)
        /\ \A i \in 1..Len(res.columns) : \A j \in 1..Len(res.columns) :
               res.columns[i] = res.columns[j] => i = j
        /\ \A i \in 1..Len(res.columns) : MapHas(res.data, res.columns[i])
        /\ \A c \in InputColumns :
               \E i \in 1..Len(res.columns) :
                   /\ MapHas(res.data, res.columns[i])
                   /\ MapGet(res.data, res.columns[i]).values
                          = inp.dataFrames[c[1]].data[c[2]][2].values

\* the columns of the one or two tables handed to concat, in order of first
\* appearance
FirstAppearance ==
    IF Len(inp.dataFrames) = 1 THEN inp.dataFrames[1].columns
    ELSE inp.dataFrames[1].columns
           \o SelectSeq(inp.dataFrames[2].columns,
                        LAMBDA c : \A i \in 1..Len(inp.dataFrames[1].columns) :
                                       inp.dataFrames[1].columns[i] # c)

\* the rows of the result that come before those of the d-th table
RowsBefore(d) == IF d = 1 THEN 0 ELSE Length(inp.dataFrames[1])

TotalRows == RowsBefore(Len(inp.dataFrames))
                 + Length(inp.dataFrames[Len(inp.dataFrames)])

\* C25: concat along axis 0 returns a table with the inputs' rows in input
\* order; its columns are the union of the inputs' columns in order of first
\* appearance; a table lacking a column contributes Missing for each of its
\* rows; the Labels are the inputs' Labels concatenated, or 0..n-1 when
\* ignore_index is set.
ConcatRowsUnion ==
    (op = "concat" /\ inp.axis = 0) =>
        /\ res.ok
        /\ Length(res) = TotalRows
        /\ Len(res.index) = TotalRows
        /\ res.columns = FirstAppearance
        /\ \A d \in 1..Len(inp.dataFrames) :
               \A i \in 1..Length(inp.dataFrames[d]) :
                   /\ res.index[RowsBefore(d) + i]
                          = IF inp.ignore_index THEN Num(RowsBefore(d) + i - 1)
                            ELSE inp.dataFrames[d].index[i]
                   /\ \A c \in 1..Len(FirstAppearance) :
                          /\ MapHas(res.data, FirstAppearance[c])
                          /\ MapGet(res.data, FirstAppearance[c])
                                 .values[RowsBefore(d) + i]
                                 = IF MapHas(inp.dataFrames[d].data,
                                             FirstAppearance[c])
                                   THEN MapGet(inp.dataFrames[d].data,
                                               FirstAppearance[c]).values[i]
                                   ELSE Null

----------------------------------------------------------------------------
(* The columns specification: a caller holding a table calls rename,       *)
(* assign, dropColumns or getColumns on it.                                 *)

\* rows of a table whose columns are renamed, assigned, dropped or selected
ColumnsMaxRows == 2

\* tables with the columns a, or a and b in either order; every value tells
\* its column and row; default Labels or Labels from {r, s}
ColumnsFrames(rows) ==
    UNION {{DataFrame([j \in 1..Len(names) |->
                          <<names[j],
                            [i \in 1..n |->
                                Num((IF names[j] = ColA THEN 10 ELSE 20) + i)]>>],
                      Absent, ix) :
               names \in {<<ColA>>, <<ColA, ColB>>, <<ColB, ColA>>},
               ix \in {Absent} \cup {Given(l) : l \in [1..n -> {RowR, RowS}]}} :
           n \in 1..rows}

ColumnNames == {ColA, ColB, ColC}

\* the arguments of rename: up to two entries oldName: newName; a new name
\* may be the empty string
RenameMaps ==
    {<<>>}
        \cup {<<<<o, n>>>> : o \in ColumnNames, n \in ColumnNames \cup {<<>>}}
        \cup {<<<<ColA, n>>, <<ColB, k>>>> : n \in ColumnNames, k \in ColumnNames}

\* one assignment: an array of one to three values, a row function or a
\* counting function
AssignmentForms ==
    {ArrayAssignment([i \in 1..n |-> Num(30 + i)]) : n \in 1..3}
        \cup {RowFunction(ColA), RowFunction(ColC), CountingFunction}

\* the arguments of assign: one entry, or two entries under different
\* names, the second a function or an array of two or three values
Assignments ==
    {<<<<c, x>>>> : c \in ColumnNames, x \in AssignmentForms}
        \cup {<<<<p[1], x>>, <<p[2], y>>>> :
                 p \in {<<ColA, ColC>>, <<ColC, ColA>>, <<ColB, ColC>>},
                 x \in AssignmentForms,
                 y \in {RowFunction(ColA), CountingFunction,
                        ArrayAssignment(<<Num(41), Num(42)>>),
                        ArrayAssignment(<<Num(41), Num(42), Num(43)>>)}}

\* the arguments of dropColumns and getColumns: up to two names
NameLists ==
    {<<>>} \cup {<<c>> : c \in ColumnNames}
           \cup {<<c, e>> : c \in ColumnNames, e \in ColumnNames}

ColumnsInit ==
    /\ op = "init"
    /\ inp \in {[df |-> d, arg |-> <<>>] : d \in ColumnsFrames(ColumnsMaxRows)}
    /\ res = Error("", <<>>)
    /\ wasmEnabled = FALSE
    /\ heap = IdleHeap
    /\ tables = <<>>
    /\ objs = <<>>
    /\ engine = IdleEngine

\* df.rename(columns)
Rename ==
    \E columns \in RenameMaps :
        /\ res' = rename(inp.df, columns)
        /\ inp' = [inp EXCEPT !.arg = columns]
        /\ op' = "rename"
        /\ UNCHANGED <<wasmEnabled, heap, tables, objs, engine>>

\* df.assign(assignments)
Assign ==
    \E assignments \in Assignments :
        /\ res' = assign(inp.df, assignments)
        /\ inp' = [inp EXCEPT !.arg = assignments]
        /\ op' = "assign"
        /\ UNCHANGED <<wasmEnabled, heap, tables, objs, engine>>

\* df.dropColumns(columns)
DropColumns ==
    \E columns \in NameLists :
        /\ res' = dropColumns(inp.df, columns)
        /\ inp' = [inp EXCEPT !.arg = columns]
        /\ op' = "dropColumns"
        /\ UNCHANGED <<wasmEnabled, heap, tables, objs, engine>>

\* df.getColumns(columnNames)
GetColumns ==
    \E columnNames \in NameLists :
        /\ res' = getColumns(inp.df, columnNames)
        /\ inp' = [inp EXCEPT !.arg = columnNames]
        /\ op' = "getColumns"
        /\ UNCHANGED <<wasmEnabled, heap, tables, objs, engine>>

ColumnsNext == Rename \/ Assign \/ DropColumns \/ GetColumns

SpecColumns == ColumnsInit /\ [][ColumnsNext]_vars

\* the Table invariants: column names are pairwise distinct, every name in
\* columns has a stored Column, every Column has one value per row
TableInvariants(t) ==
    /\ \A i \in 1..Len(t.columns) : \A j \in 1..Len(t.columns) :
           t.columns[i] = t.columns[j] => i = j
    /\ \A i \in 1..Len(t.columns) : MapHas(t.data, t.columns[i])
    /\ \A i \in 1..Len(t.data) : Len(t.data[i][2].values) = Len(t.index)

\* C19: rename, assign, dropColumns and getColumns, applied to a table that
\* satisfies the Table invariants, return a table that satisfies them and
\* has the receiver's Labels; rename always returns a table.
ColumnOpsKeepInvariants ==
    (op \in {"rename", "assign", "dropColumns", "getColumns"}
        /\ TableInvariants(inp.df)) =>
        /\ op = "rename" => res.ok
        /\ res.ok => TableInvariants(res) /\ res.index = inp.df.index

\* C21: an operation given a column name absent from the table fails with a
\* column-not-found error instead of returning a result; here getColumns and
\* dropColumns with a list that has a name the table does not store.
AbsentColumnFails ==
    (op \in {"getColumns", "dropColumns"}
        /\ \E i \in 1..Len(inp.arg) : ~MapHas(inp.df.data, inp.arg[i])) =>
        ~res.ok /\ res.err = "ColumnNotFound"

\* the names of the entries of the argument of assign
AssignedNames == [k \in 1..Len(inp.arg) |-> inp.arg[k][1]]

\* the values the claim gives the column assigned by the k-th entry: the
\* array, or one call per row, in index order, on the receiver's row
AssignedValues(k) ==
    IF ~inp.arg[k][2].fn THEN inp.arg[k][2].values
    ELSE [i \in 1..Length(inp.df) |->
             IF inp.arg[k][2].count THEN Num(i)
             ELSE IF MapHas(inp.df.data, inp.arg[k][2].of)
             THEN MapGet(inp.df.data, inp.arg[k][2].of).values[i]
             ELSE Undef]

----------------------------------------------------------------------------
(* The duplicates specification: a caller holding a table calls            *)
(* dropDuplicates on it.                                                    *)

\* rows of a table handed to dropDuplicates
DuplicatesMaxRows == 3

\* rows <<a, b>> whose values differ as typed values but read alike as
\* strings (1 and "1", Missing and "null"), or that differ in where a "|"
\* falls
DuplicateRows ==
    {<<v, Str(<<"x">>)>> :
        v \in {Num(1), Str(<<"1">>), Null, Str(<<"n", "u", "l", "l">>)}}
        \cup BarPairs

\* tables with the columns a and b and a column c that tells the rows
\* apart; default Labels, or the Labels r, s, r
DuplicateFrames(rows) ==
    {DataFrame(<<<<ColA, [i \in 1..Len(r) |-> r[i][1]]>>,
                 <<ColB, [i \in 1..Len(r) |-> r[i][2]]>>,
                 <<ColC, [i \in 1..Len(r) |-> Num(10 + i)]>>>>,
               Absent,
               IF g THEN Given([i \in 1..Len(r) |->
                                   IF i = 2 THEN RowS ELSE RowR])
               ELSE Absent) :
        r \in SeqsUpTo(DuplicateRows, rows), g \in BOOLEAN}

Subsets == {Absent, Given(<<ColA>>), Given(<<ColA, ColB>>), Given(<<ColB>>)}

DuplicatesInit ==
    /\ op = "init"
    /\ inp \in {[df |-> d, subset |-> u] :
                   d \in DuplicateFrames(DuplicatesMaxRows), u \in Subsets}
    /\ res = Error("", <<>>)
    /\ wasmEnabled = FALSE
    /\ heap = IdleHeap
    /\ tables = <<>>
    /\ objs = <<>>
    /\ engine = IdleEngine

\* df.dropDuplicates(subset)
DropDuplicates ==
    /\ res' = dropDuplicates(inp.df, inp.subset)
    /\ op' = "dropDuplicates"
    /\ UNCHANGED <<inp, wasmEnabled, heap, tables, objs, engine>>

DuplicatesNext == DropDuplicates

SpecDuplicates == DuplicatesInit /\ [][DuplicatesNext]_vars

\* the columns dropDuplicates compares
SubsetColumns == IF inp.subset.given THEN inp.subset.v ELSE inp.df.columns

\* row j has equal values, as typed values, to row i in every compared column
SameTypedRow(i, j) ==
    \A c \in 1..Len(SubsetColumns) :
        MapGet(inp.df.data, SubsetColumns[c]).values[i]
            = MapGet(inp.df.data, SubsetColumns[c]).values[j]

\* the rows that no earlier row equals
FirstOccurrences ==
    [i \in 1..Length(inp.df) |-> \A j \in 1..(i - 1) : ~SameTypedRow(i, j)]

\* C20: dropDuplicates(subset) keeps a row if and only if no earlier row has
\* equal values, as typed values, in every subset column (all columns when
\* subset is omitted); the kept rows retain their order, Labels and values.
DuplicatesDropped ==
    op = "dropDuplicates" =>
        LET kept == Cardinality({i \in 1..Length(inp.df) : FirstOccurrences[i]})
        IN /\ res.ok
           /\ res.index = [k \in 1..kept |->
                              inp.df.index[NthTrue(FirstOccurrences, k)]]
           /\ \A c \in 1..Len(inp.df.columns) :
                  /\ MapHas(res.data, inp.df.columns[c])
                  /\ MapGet(res.data, inp.df.columns[c]).values
                         = [k \in 1..kept |->
                               MapGet(inp.df.data, inp.df.columns[c])
                                   .values[NthTrue(FirstOccurrences, k)]]

----------------------------------------------------------------------------
(* Arrays as objects.  heap[a] is the content of the array at address a;   *)
(* a DataFrame object holds the addresses of its columns array, its index  *)
(* array and the value array of each stored column, and its shape tuple.   *)
(* tables lists the DataFrame objects the caller holds, objs the addresses *)
(* of the other arrays the caller holds (arrays it passed in as options or *)
(* arguments, and the arrays of the objects toJSON returned).  Each Series *)
(* holds a value array of its own (src/series.ts is not part of the        *)
(* sources).                                                                *)

\* DataFrame objects the caller creates in one run
HeapMaxTables == 3

\* the table a DataFrame object shows: its arrays read through the heap
View(h, t) ==
    [ok |-> TRUE, err |-> "", detail |-> <<>>,
     columns |-> h[t.columns],
     index |-> h[t.index],
     data |-> [i \in 1..Len(t.data) |->
                  <<t.data[i][1], Series(h[t.data[i][2]], t.data[i][1])>>],
     shape |-> t.shape]

\* the DataFrame object of a constructed table r: columnsRef / indexRef is
\* the address of the array the constructor was handed, or 0 when it was
\* handed (or made) a new array
StoreTable(h, r, columnsRef, indexRef) ==
    LET h1 == IF columnsRef = 0 THEN Append(h, r.columns) ELSE h
        h2 == IF indexRef = 0 THEN Append(h1, r.index) ELSE h1
        n == Len(r.data)
    IN [heap |-> h2 \o [i \in 1..n |-> r.data[i][2].values],
        table |-> [columns |-> IF columnsRef = 0 THEN Len(h1) ELSE columnsRef,
                   index |-> IF indexRef = 0 THEN Len(h2) ELSE indexRef,
                   data |-> [i \in 1..n |-> <<r.data[i][1], Len(h2) + i>>],
                   shape |-> r.shape]]

\* a call returns: the new DataFrame object is stored, or the Error thrown
Returns(name, args, h, r, columnsRef, indexRef, held) ==
    /\ op' = name
    /\ inp' = args
    /\ IF r.ok
       THEN LET s == StoreTable(h, r, columnsRef, indexRef)
            IN /\ heap' = s.heap
               /\ tables' = Append(tables, s.table)
               /\ objs' = SetAddAll(objs, held)
               /\ res' = [ok |-> TRUE, err |-> "", table |-> Len(tables) + 1]
       ELSE \* the arrays made for a call that threw are dropped
            /\ res' = [ok |-> FALSE, err |-> r.err, table |-> 0]
            /\ UNCHANGED <<heap, tables, objs>>
    /\ UNCHANGED <<wasmEnabled, engine>>

\* the caller may make another call
MayCall == Len(tables) < HeapMaxTables /\ op # "mutate"

Receivers == 1..Len(tables)

\* the receiver and argument of a call on two tables: the pairs that hold
\* the table returned last (the other pairs were open to the caller before
\* that table was returned)
ReceiverPairs ==
    {pair \in Receivers \X Receivers :
        pair[1] = Len(tables) \/ pair[2] = Len(tables)}

HeapData == << <<ColA, <<Num(2), Num(1)>> >>, <<ColB, <<Null, Num(1)>> >> >>

\* new DataFrame(data) / new DataFrame(data, { columns: cs, index: ix })
\* with arrays cs and ix the caller keeps
ConstructObject ==
    /\ MayCall
    /\ \/ Returns("construct", [given |-> FALSE], heap,
                  DataFrame(HeapData, Absent, Absent), 0, 0, <<>>)
       \/ LET cs == <<ColA, ColB>>
              ix == <<RowR, RowS>>
              h == heap \o <<cs, ix>>
          IN Returns("construct", [given |-> TRUE], h,
                     DataFrame(HeapData, Given(cs), Given(ix)),
                     Len(heap) + 1, Len(heap) + 2,
                     <<Len(heap) + 1, Len(heap) + 2>>)

\* the first row label / position of a table, as a one-element array
FirstLabel(df) == IF df.index = <<>> THEN <<>> ELSE <<df.index[1]>>
FirstPosition(df) == IF df.index = <<>> THEN <<>> ELSE <<1>>

GetColumnsCall ==
    /\ MayCall
    /\ \E t \in Receivers :
           Returns("getColumns", [t |-> t], heap,
                   getColumns(View(heap, tables[t]), <<ColA>>),
                   0, tables[t].index, <<>>)

\* loc(rowLabels) / loc(rowLabels, columnLabels): the caller keeps both arrays
LocCall ==
    /\ MayCall
    /\ \E t \in Receivers :
           LET df == View(heap, tables[t])
               rowLabels == FirstLabel(df)
           IN \/ Returns("loc", [t |-> t, columns |-> FALSE],
                         Append(heap, rowLabels),
                         loc(df, rowLabels, Absent),
                         tables[t].columns, Len(heap) + 1, <<Len(heap) + 1>>)
              \/ Returns("loc", [t |-> t, columns |-> TRUE],
                         heap \o <<rowLabels, <<ColA>> >>,
                         loc(df, rowLabels, Given(<<ColA>>)),
                         Len(heap) + 2, Len(heap) + 1,
                         <<Len(heap) + 1, Len(heap) + 2>>)

IlocCall ==
    /\ MayCall
    /\ \E t \in Receivers :
           LET df == View(heap, tables[t])
           IN \/ Returns("iloc", [t |-> t, columns |-> FALSE], heap,
                         iloc(df, FirstPosition(df), Absent),
                         tables[t].columns, 0, <<>>)
              \/ Returns("iloc", [t |-> t, columns |-> TRUE], heap,
                         iloc(df, FirstPosition(df), Given(<<1>>)),
                         0, 0, <<>>)

FilterCall ==
    /\ MayCall
    /\ \E t \in Receivers :
           LET df == View(heap, tables[t])
           IN Returns("filter", [t |-> t], heap,
                      filter(df, [i \in 1..Length(df) |-> i = 1]), 0, 0, <<>>)

QueryCall ==
    /\ MayCall
    /\ \E t \in Receivers :
           Returns("query", [t |-> t], heap,
                   query(View(heap, tables[t]), Cond(ColA, <<">">>, <<"1">>)),
                   0, 0, <<>>)

\* an operation of one receiver that hands the constructor the arrays
\* named by columnsRef / indexRef (0: a new array)
UnaryCall(name, t, r, columnsRef, indexRef) ==
    Returns(name, [t |-> t], heap, r, columnsRef, indexRef, <<>>)

DropColumnsCall ==
    /\ MayCall
    /\ \E t \in Receivers :
           UnaryCall("dropColumns", t,
                     dropColumns(View(heap, tables[t]), <<ColB>>),
                     0, tables[t].index)

DropRowsCall ==
    /\ MayCall
    /\ \E t \in Receivers :
           LET df == View(heap, tables[t])
           IN UnaryCall("dropRows", t, dropRows(df, FirstLabel(df)), 0, 0)

DropCall ==
    /\ MayCall
    /\ \E t \in Receivers :
           LET df == View(heap, tables[t])
           IN UnaryCall("drop", t, drop(df, FirstPosition(df)), 0, 0)

RenameCall ==
    /\ MayCall
    /\ \E t \in Receivers :
           UnaryCall("rename", t,
                     rename(View(heap, tables[t]), << <<ColA, ColX>> >>),
                     0, tables[t].index)

AssignCall ==
    /\ MayCall
    /\ \E t \in Receivers :
           UnaryCall("assign", t,
                     assign(View(heap, tables[t]),
                            << <<ColX, RowFunction(ColA)>> >>),
                     0, tables[t].index)

SortValuesCall ==
    /\ MayCall
    /\ \E t \in Receivers :
           \E r \in sortValues(View(heap, tables[t]), <<ColA>>, TRUE,
                               wasmEnabled) :
               UnaryCall("sortValues", t, r.out, tables[t].columns, 0)

SortIndexCall ==
    /\ MayCall
    /\ \E t \in Receivers :
           \E r \in sortIndex(View(heap, tables[t]), FALSE) :
               UnaryCall("sortIndex", t, r.out, tables[t].columns, 0)

ResetIndexCall ==
    /\ MayCall
    /\ \E t \in Receivers :
           UnaryCall("resetIndex", t, resetIndex(View(heap, tables[t])),
                     tables[t].columns, 0)

DropDuplicatesCall ==
    /\ MayCall
    /\ \E t \in Receivers :
           UnaryCall("dropDuplicates", t,
                     dropDuplicates(View(heap, tables[t]), Given(<<ColB>>)),
                     0, 0)

DropnaCall ==
    /\ MayCall
    /\ \E t \in Receivers :
           \/ UnaryCall("dropna", t, dropna(View(heap, tables[t]), "rows"),
                        0, 0)
           \/ UnaryCall("dropna", t, dropna(View(heap, tables[t]), "columns"),
                        0, tables[t].index)

FillnaCall ==
    /\ MayCall
    /\ \E t \in Receivers :
           UnaryCall("fillna", t, fillna(View(heap, tables[t]), Num(0)),
                     tables[t].columns, tables[t].index)

\* toJSON(): the returned object holds this.columns and this.index
ToJSONCall ==
    /\ op # "mutate"
    /\ \E t \in Receivers :
           /\ op' = "toJSON"
           /\ inp' = [t |-> t]
           /\ res' = [ok |-> TRUE, err |-> "", table |-> 0]
           /\ objs' = SetAddAll(objs, <<tables[t].columns, tables[t].index>>)
           /\ UNCHANGED <<heap, tables, wasmEnabled, engine>>

MergeCall ==
    /\ MayCall
    /\ \E pair \in ReceiverPairs :
           Returns("merge", [t |-> pair[1], u |-> pair[2]], heap,
                   merge(View(heap, tables[pair[1]]),
                         View(heap, tables[pair[2]]),
                         MergeOn(<<ColA>>, "outer")),
                   0, 0, <<>>)

\* the array concat collects the row labels in, and the heap holding it
\* (const resultIndex: Index[] = [])
ResultIndexArrayOfFirst(h, dataFrames) ==
    [heap |-> h, addr |-> dataFrames[1].index]

ResultIndexArray(h, dataFrames) ==
    [heap |-> Append(h, <<>>), addr |-> Len(h) + 1]

\* resultIndex.push(...df.index) for every frame, in order
RECURSIVE PushIndexes(_, _, _)
PushIndexes(h, addr, dataFrames) ==
    IF dataFrames = <<>> THEN h
    ELSE PushIndexes([h EXCEPT ![addr] = @ \o h[dataFrames[1].index]], addr,
                     Tail(dataFrames))

\* BoxFrame.concat([t, u], axis)
ConcatCall ==
    /\ MayCall
    /\ \E pair \in ReceiverPairs :
           LET t == pair[1]
               u == pair[2]
               dataFrames == <<tables[t], tables[u]>>
               views == <<View(heap, tables[t]), View(heap, tables[u])>>
               resultIndex == ResultIndexArray(heap, dataFrames)
           IN \/ Returns("concat", [t |-> t, u |-> u, axis |-> 0],
                         PushIndexes(resultIndex.heap, resultIndex.addr,
                                     dataFrames),
                         concat(views, 0, FALSE), 0, resultIndex.addr, <<>>)
              \/ Returns("concat", [t |-> t, u |-> u, axis |-> 1], heap,
                         concat(views, 1, FALSE), 0, tables[t].index, <<>>)

\* The caller changes, in place, an array it holds (arr.pop()): one it
\* passed in or got from toJSON, or the index / columns array of a
\* DataFrame object.  The model follows the caller up to this first write.
Mutate ==
    /\ op # "mutate"
    /\ \/ \E k \in 1..Len(objs) :
              /\ heap[objs[k]] # <<>>
              /\ heap' = [heap EXCEPT ![objs[k]] = SubSeq(@, 1, Len(@) - 1)]
              /\ inp' = [via |-> "array", who |-> k]
       \/ \E t \in Receivers : \E a \in {tables[t].index, tables[t].columns} :
              /\ heap[a] # <<>>
              /\ heap' = [heap EXCEPT ![a] = SubSeq(@, 1, Len(@) - 1)]
              /\ inp' = [via |-> "table", who |-> t]
    /\ op' = "mutate"
    /\ UNCHANGED <<res, tables, objs, wasmEnabled, engine>>

CallsInit ==
    /\ op = "init"
    /\ inp = [t |-> 0]
    /\ res = [ok |-> TRUE, err |-> "", table |-> 0]
    /\ wasmEnabled = FALSE
    /\ heap = IdleHeap
    /\ tables = <<>>
    /\ objs = <<>>
    /\ engine = IdleEngine

CallsNext ==
    \/ ConstructObject
    \/ LocCall
    \/ IlocCall
    \/ FilterCall
    \/ QueryCall
    \/ DropColumnsCall
    \/ DropRowsCall
    \/ DropCall
    \/ RenameCall
    \/ AssignCall
    \/ SortValuesCall
    \/ SortIndexCall
    \/ DropDuplicatesCall
    \/ DropnaCall
    \/ FillnaCall
    \/ MergeCall
    \/ ConcatCall

\* the caller constructs tables and calls the operations that select, drop,
\* rename, assign, sort, clean and combine
SpecCalls == CallsInit /\ [][CallsNext]_vars

AliasNext ==
    \/ CallsNext
    \/ GetColumnsCall
    \/ ResetIndexCall
    \/ ToJSONCall
    \/ Mutate

\* the caller calls any operation, asks for JSON objects, and then writes to
\* an array it holds
SpecAlias == CallsInit /\ [][AliasNext]_vars

\* C4: a write to an array the caller holds, or to the index / columns array
\* of one DataFrame object, changes the index and columns of no other
\* DataFrame object (of none at all, when the write is to a caller's array).
WriteChangesNoOtherTable ==
    [][op' = "mutate" =>
          \A i \in 1..Len(tables) :
              \/ inp'.via = "table" /\ inp'.who = i
              \/ /\ heap'[tables[i].index] = heap[tables[i].index]
                 /\ heap'[tables[i].columns] = heap[tables[i].columns]]_vars

\* C5: a call leaves every DataFrame object the caller holds (the receiver
\* and the argument tables among them), and every array the caller holds,
\* as they were: same columns, same index, same values in every column.
CallsLeaveTablesUnchanged ==
    [][/\ \A i \in 1..Len(tables) :
              /\ tables'[i] = tables[i]
              /\ View(heap', tables[i]) = View(heap, tables[i])
       /\ \A k \in 1..Len(objs) :
              objs'[k] = objs[k] /\ heap'[objs[k]] = heap[objs[k]]]_vars

\* a table that an earlier call returned has been sorted by index, and the
\* returned table's index differs from the receiver's
DerivedTableSorted ==
    /\ op = "sortIndex"
    /\ res.ok
    /\ inp.t > 1
    /\ heap[tables[res.table].index] # heap[tables[inp.t].index]

============================================================================
